---- MODULE Spec2Model ----
(***************************************************************************)
(* Trend dashboard (Spotify_Dashboard): the asynchronous loadTrends        *)
(* machine and the client-side pipeline  trends -> normalizedTrends ->     *)
(* filtered -> grouped / kpis  of the dashboard page component.            *)
(*                                                                         *)
(* Conventions                                                             *)
(*  - a nullable field is <<>> (null) or <<v>> (the value v);              *)
(*  - text is a TLA+ string, read character by character with SubSeq;      *)
(*  - relevance scores and minScore are integers in hundredths             *)
(*    (0.8 is 80, the slider step 0.01 is 1);                              *)
(*  - a Date is its time value in hours since 1970-01-01T00:00Z            *)
(*    (86400000 ms is 24 h), <<>> stands for an Invalid Date;              *)
(*  - the viewer's time zone is a fixed whole-hour offset tzOffset.        *)
(***************************************************************************)
EXTENDS Integers, Sequences, FiniteSets, TLC

VARIABLES
    tzOffset,          \* environment: local time = UTC + tzOffset hours
    config,            \* environment: "ok" | "noenv" | "noclient"
    serverData,        \* rows of public.trends as the backend would return them
    mounted,           \* the mount effect has run (its `active` flag is true)
    loads,             \* the loadTrends calls that issued a fetch, in start order
    trends,            \* useState<Trend[]>
    loading,           \* useState(true)
    refreshing,        \* useState(false)
    error,             \* useState<string | null>
    groupBy,           \* useState<GroupBy>("week")
    selectedSlot,      \* useState<string>("all")
    selectedCategory,  \* useState<string>("all")
    minScore,          \* useState<number>
    searchQuery,       \* useState<string>("")
    slotResetPending,  \* the [groupBy] effect is scheduled and has not run yet
    sourceGroupOpen,   \* useState<Record<string, boolean>>({})
    exportScope,       \* useState<ExportScope>("all")
    exportMonth,       \* useState<string>("all")
    exportWeek,        \* useState<string>("all")
    exporting,         \* useState(false)
    exports,           \* the handleExcelExport calls that started an export
    now,               \* useMemo(() => new Date(), [])
    authEnv,           \* process.env: BASIC_AUTH_USER, BASIC_AUTH_PASS, BASIC_AUTH_TOKEN
    siteAuth,          \* the site_auth cookie in the browser's cookie store
    lastRequest,       \* the request the server handled last
    lastResponse,      \* its response
    selectedCategories \* useState<string[]>([]) of the multi-select page

vars == <<tzOffset, config, serverData, mounted, loads, trends, loading, refreshing,
          error, groupBy, selectedSlot, selectedCategory, minScore,
          searchQuery, slotResetPending, sourceGroupOpen,
          exportScope, exportMonth, exportWeek, exporting, exports, now,
          authEnv, siteAuth, lastRequest, lastResponse, selectedCategories>>

envVars == <<tzOffset, config>>
loadVars == <<mounted, loads, trends, loading, refreshing, error>>
filterVars == <<groupBy, selectedSlot, selectedCategory, minScore,
                searchQuery, slotResetPending>>
exportVars == <<exportScope, exportMonth, exportWeek, exporting, exports>>
authVars == <<authEnv, siteAuth, lastRequest, lastResponse>>
otherVars == <<exportVars, now, authVars, selectedCategories>>

-----------------------------------------------------------------------------
(* Nullable values                                                         *)

Null == <<>>
Some(v) == <<v>>
Coalesce(o, dflt) == IF o = Null THEN dflt ELSE o[1]

-----------------------------------------------------------------------------
(* Strings                                                                 *)

CharAt(s, i) == SubSeq(s, i, i)

IsWhite(c) == c \in {" ", "\t", "\n"}

\* Index of the first non-white character at or after i, Len(s) + 1 if none.
RECURSIVE SkipWhite(_, _)
SkipWhite(s, i) ==
    IF i <= Len(s) /\ IsWhite(CharAt(s, i)) THEN SkipWhite(s, i + 1) ELSE i

\* Index of the last non-white character at or before i, 0 if none.
RECURSIVE SkipWhiteBack(_, _)
SkipWhiteBack(s, i) ==
    IF i >= 1 /\ IsWhite(CharAt(s, i)) THEN SkipWhiteBack(s, i - 1) ELSE i

trim(s) == SubSeq(s, SkipWhite(s, 1), SkipWhiteBack(s, Len(s)))

UpperChars == "ABCDEFGHIJKLMNOPQRSTUVWXYZ"
LowerChars == "abcdefghijklmnopqrstuvwxyz"

LowerTable ==
    [c \in {CharAt(UpperChars, k) : k \in 1..26} |->
        CharAt(LowerChars, CHOOSE k \in 1..26 : CharAt(UpperChars, k) = c)]

LowerOf(c) == IF c \in DOMAIN LowerTable THEN LowerTable[c] ELSE c

RECURSIVE LowerFrom(_, _)
LowerFrom(s, i) ==
    IF i > Len(s) THEN "" ELSE LowerOf(CharAt(s, i)) \o LowerFrom(s, i + 1)

toLowerCase(s) == LowerFrom(s, 1)

includes(s, q) ==
    \E i \in 1..(Len(s) + 1) :
        i + Len(q) - 1 <= Len(s) /\ SubSeq(s, i, i + Len(q) - 1) = q

startsWith(s, p) == Len(p) <= Len(s) /\ SubSeq(s, 1, Len(p)) = p

endsWith(s, p) ==
    Len(p) <= Len(s) /\ SubSeq(s, Len(s) - Len(p) + 1, Len(s)) = p

\* Boolean(s) for a string: the empty string is the only falsy one.
Truthy(s) == Len(s) > 0

DigitChars == <<"0", "1", "2", "3", "4", "5", "6", "7", "8", "9">>

DigitTable ==
    [c \in {DigitChars[k] : k \in 1..10} |->
        (CHOOSE k \in 1..10 : DigitChars[k] = c) - 1]

IsDigit(c) == c \in DOMAIN DigitTable

DigitVal(c) == DigitTable[c]

RECURSIVE NatToString(_)
NatToString(n) ==
    IF n < 10 THEN DigitChars[n + 1]
    ELSE NatToString(n \div 10) \o DigitChars[(n % 10) + 1]

\* String(n) / template-literal interpolation of an integer.
NumToString(n) == IF n < 0 THEN "-" \o NatToString(-n) ELSE NatToString(n)

AllDigits(s) == \A i \in 1..Len(s) : IsDigit(CharAt(s, i))

\* The number written by the first n characters of s, all digits.
RECURSIVE DigitsUpTo(_, _)
DigitsUpTo(s, n) ==
    IF n = 0 THEN 0 ELSE DigitsUpTo(s, n - 1) * 10 + DigitVal(CharAt(s, n))

DigitsToNat(s) == DigitsUpTo(s, Len(s))

-----------------------------------------------------------------------------
(* Calendar arithmetic of the Date built-ins (proleptic Gregorian, UTC)    *)

HoursPerDay == 24

\* Date.UTC(y, m, d) in days since the epoch; m is 1..12 here.
DaysFromCivil(y, m, d) ==
    LET yy  == IF m <= 2 THEN y - 1 ELSE y
        era == yy \div 400
        yoe == yy - era * 400
        mp  == IF m > 2 THEN m - 3 ELSE m + 9
        doy == (153 * mp + 2) \div 5 + d - 1
        doe == yoe * 365 + yoe \div 4 - yoe \div 100 + doy
    IN  era * 146097 + doe - 719468

\* [y, m, d] of a day number (getUTCFullYear / getUTCMonth + 1 / getUTCDate).
CivilFromDays(z0) ==
    LET z   == z0 + 719468
        era == z \div 146097
        doe == z - era * 146097
        yoe == (doe - doe \div 1460 + doe \div 36524 - doe \div 146096) \div 365
        doy == doe - (365 * yoe + yoe \div 4 - yoe \div 100)
        mp  == (5 * doy + 2) \div 153
        dd  == doy - (153 * mp + 2) \div 5 + 1
        mm  == IF mp < 10 THEN mp + 3 ELSE mp - 9
        yy  == yoe + era * 400 + (IF mm <= 2 THEN 1 ELSE 0)
    IN  [y |-> yy, m |-> mm, d |-> dd]

IsLeap(y) == (y % 4 = 0 /\ y % 100 # 0) \/ y % 400 = 0

DaysInMonth(y, m) ==
    IF m = 2 THEN (IF IsLeap(y) THEN 29 ELSE 28)
    ELSE IF m \in {4, 6, 9, 11} THEN 30 ELSE 31

\* getFullYear / getMonth + 1 / getDate: the calendar date in local time.
LocalCivil(t, tz) == CivilFromDays((t + tz) \div HoursPerDay)

\* new Date(iso).getTime() for the date-only ISO form YYYY-MM-DD, which is
\* read as UTC midnight; every other string modelled here is an Invalid Date.
ParseDate(iso) ==
    IF /\ Len(iso) = 10
       /\ CharAt(iso, 5) = "-" /\ CharAt(iso, 8) = "-"
       /\ AllDigits(SubSeq(iso, 1, 4))
       /\ AllDigits(SubSeq(iso, 6, 7))
       /\ AllDigits(SubSeq(iso, 9, 10))
    THEN LET y == DigitsToNat(SubSeq(iso, 1, 4))
             m == DigitsToNat(SubSeq(iso, 6, 7))
             d == DigitsToNat(SubSeq(iso, 9, 10))
         IN  IF m \in 1..12 /\ d >= 1 /\ d <= DaysInMonth(y, m)
             THEN Some(DaysFromCivil(y, m, d) * HoursPerDay)
             ELSE Null
    ELSE Null

-----------------------------------------------------------------------------
(* Utility functions of the page                                           *)

Max(a, b) == IF a >= b THEN a ELSE b
Min(a, b) == IF a <= b THEN a ELSE b

\* clamp01 that lets a value above the range through as "no floor".
clamp01_wrap(n) == IF n > 100 THEN 0 ELSE Max(0, n)

clamp01(n) == Max(0, Min(100, n))

\* iso is a nullable string; the result is a nullable Date.
safeDate(iso) ==
    IF iso = Null \/ ~Truthy(iso[1]) THEN Null
    ELSE ParseDate(iso[1])

pad2(n) == IF Len(NumToString(n)) < 2 THEN "0" \o NumToString(n) ELSE NumToString(n)

\* getISOWeek without the "|| 7": Sunday counted as day 0 of the week.
getISOWeek_sundayZero(date, tz) ==
    LET c         == LocalCivil(date, tz)
        d0        == DaysFromCivil(c.y, c.m, c.d)
        utcDay    == (d0 + 4) % 7
        d         == d0 + 4 - utcDay
        yearStart == DaysFromCivil(CivilFromDays(d).y, 1, 1)
    IN  ((d - yearStart) + 1 + 6) \div 7

getISOWeek(date, tz) ==
    LET c         == LocalCivil(date, tz)
        d0        == DaysFromCivil(c.y, c.m, c.d)
        utcDay    == (d0 + 4) % 7
        d         == d0 + 4 - (IF utcDay = 0 THEN 7 ELSE utcDay)
        yearStart == DaysFromCivil(CivilFromDays(d).y, 1, 1)
    IN  \* Math.ceil((days + 1) / 7) for days >= 0
        ((d - yearStart) + 1 + 6) \div 7

isoDayKey(d, tz) ==
    LET c == LocalCivil(d, tz)
    IN  NumToString(c.y) \o "-" \o pad2(c.m) \o "-" \o pad2(c.d)

monthKey(d, tz) ==
    LET c == LocalCivil(d, tz)
    IN  NumToString(c.y) \o "-" \o pad2(c.m)

-----------------------------------------------------------------------------
(* Trend records                                                           *)

Trend(id, topic, category, score, summary, impact, url, date, week) ==
    [id |-> id, topic |-> topic, category |-> category,
     relevance_score |-> score, summary |-> summary,
     spotify_impact |-> impact, url |-> url,
     published_date |-> date, week_number |-> week]

\* The row contents c with the primary key id.
WithId(c, id) ==
    Trend(id, c.topic, c.category, c.relevance_score, c.summary,
          c.spotify_impact, c.url, c.published_date, c.week_number)

-----------------------------------------------------------------------------
(* normalizedTrends                                                        *)

\* Variants of the .map callback with a slip in them.
deriveWeek_canonDate(t, tz) ==
    LET d == safeDate(t.published_date)
    IN  [t EXCEPT !.week_number =
            IF t.week_number # Null THEN t.week_number
            ELSE IF d # Null THEN Some(getISOWeek(d[1], tz)) ELSE Null,
                  !.published_date =
            IF d # Null THEN Some(isoDayKey(d[1], tz)) ELSE t.published_date]

deriveWeek_trimTopic(t, tz) ==
    LET d == safeDate(t.published_date)
    IN  [t EXCEPT !.week_number =
            IF t.week_number # Null THEN t.week_number
            ELSE IF d # Null THEN Some(getISOWeek(d[1], tz)) ELSE Null,
                  !.topic =
            IF t.topic # Null THEN Some(trim(t.topic[1])) ELSE Null]

\* The .map callback: week_number ?? (d ? getISOWeek(d) : null).
deriveWeek(t, tz) ==
    LET d == safeDate(t.published_date)
    IN  [t EXCEPT !.week_number =
            IF t.week_number # Null THEN t.week_number
            ELSE IF d # Null THEN Some(getISOWeek(d[1], tz)) ELSE Null]

hasText(field) == Truthy(trim(Coalesce(field, "")))

\* The .filter callback with hasWeek not asking for a positive number.
hasContent_anyWeek(t) ==
    \/ hasText(t.topic) \/ hasText(t.summary) \/ hasText(t.spotify_impact)
    \/ hasText(t.url) \/ t.relevance_score # Null \/ hasText(t.category)
    \/ hasText(t.published_date) \/ t.week_number # Null

\* The .filter callback.
hasContent(t) ==
    LET hasTopic    == hasText(t.topic)
        hasSummary  == hasText(t.summary)
        hasImpact   == hasText(t.spotify_impact)
        hasUrl      == hasText(t.url)
        hasScore    == t.relevance_score # Null
        hasCategory == hasText(t.category)
        hasDate     == hasText(t.published_date)
        hasWeek     == t.week_number # Null /\ t.week_number[1] > 0
    IN  hasTopic \/ hasSummary \/ hasImpact \/ hasUrl \/ hasScore
          \/ hasCategory \/ hasDate \/ hasWeek

normalizedTrendsOf(list, tz) ==
    LET mapped == [i \in 1..Len(list) |-> deriveWeek(list[i], tz)]
    IN  SelectSeq(mapped, hasContent)

normalizedTrends == normalizedTrendsOf(trends, tzOffset)

-----------------------------------------------------------------------------
(* Bucket keys and labels                                                  *)

slotKeyForTrend(t, g, tz) ==
    LET d == safeDate(t.published_date)
    IN  IF g = "week"
        THEN IF t.week_number # Null /\ t.week_number[1] # 0
             THEN "week:" \o NumToString(t.week_number[1])
             ELSE "week:unknown"
        ELSE IF g = "day"
        THEN IF d # Null THEN "day:" \o isoDayKey(d[1], tz) ELSE "day:unknown"
        ELSE IF d # Null THEN "month:" \o monthKey(d[1], tz) ELSE "month:unknown"

\* Position of the first sep in s at or after from, Len(s) + 1 if none.
RECURSIVE IndexOfFrom(_, _, _)
IndexOfFrom(s, sep, from) ==
    IF from > Len(s) THEN Len(s) + 1
    ELSE IF CharAt(s, from) = sep THEN from
    ELSE IndexOfFrom(s, sep, from + 1)

\* s.split(sep)[k] as a nullable string (null for undefined), k = 0 or 1.
SplitPart(s, sep, k) ==
    LET first == IndexOfFrom(s, sep, 1)
    IN  IF k = 0 THEN Some(SubSeq(s, 1, first - 1))
        ELSE IF first > Len(s) THEN Null
        ELSE Some(SubSeq(s, first + 1, IndexOfFrom(s, sep, first + 1) - 1))

MonthNames ==
    <<"Januar", "Februar", "März", "April", "Mai", "Juni", "Juli", "August",
      "September", "Oktober", "November", "Dezember">>

InvalidDateText == "Invalid Date"

\* d.toLocaleDateString("de-DE"): day.month.year of the local calendar date.
toLocaleDateStringDE(d, tz) ==
    LET c == LocalCivil(d, tz)
    IN  NumToString(c.d) \o "." \o NumToString(c.m) \o "." \o NumToString(c.y)

slotLabelFromKey(key, g, tz) ==
    IF endsWith(key, ":unknown")
    THEN IF g = "week" THEN "Ohne KW"
         ELSE IF g = "day" THEN "Ohne Datum" ELSE "Ohne Monat"
    ELSE
        LET raw == Coalesce(SplitPart(key, ":", 1), "")
        IN  IF g = "week" THEN "KW " \o raw
            ELSE IF g = "day"
            THEN LET d == safeDate(Some(raw))
                 IN  IF d # Null THEN toLocaleDateStringDE(d[1], tz) ELSE raw
            ELSE
                \* new Date(Number(y), Number(m) - 1, 1) in local time, shown
                \* as month and year; NaN parts give an Invalid Date.
                LET y == SplitPart(raw, "-", 0)
                    m == SplitPart(raw, "-", 1)
                IN  IF /\ m # Null /\ Len(y[1]) = 4 /\ AllDigits(y[1])
                       /\ Len(m[1]) > 0 /\ AllDigits(m[1])
                       /\ DigitsToNat(m[1]) \in 1..12
                    THEN MonthNames[DigitsToNat(m[1])] \o " " \o y[1]
                    ELSE InvalidDateText

-----------------------------------------------------------------------------
(* Sorting                                                                 *)

\* The elements of a sequence.
Elems(s) == {s[i] : i \in 1..Len(s)}

\* x put into the sorted sequence rest after the last element that does not
\* compare greater than it; cmp[a, b] is the comparator's result.
InsertSorted(rest, x, cmp) ==
    LET keep == {k \in 1..Len(rest) : cmp[rest[k], x] <= 0}
        pos  == IF keep = {} THEN 0 ELSE CHOOSE k \in keep : \A j \in keep : j <= k
    IN  SubSeq(rest, 1, pos) \o <<x>> \o SubSeq(rest, pos + 1, Len(rest))

RECURSIVE SortFirst(_, _, _)
SortFirst(s, n, cmp) ==
    IF n = 0 THEN <<>> ELSE InsertSorted(SortFirst(s, n - 1, cmp), s[n], cmp)

\* Array.prototype.sort with the comparator cmp: a stable sort.
SortedBy(s, cmp) == SortFirst(s, Len(s), cmp)

\* Primary collation weight of a character: white space, punctuation,
\* digits, letters (case and umlaut dots are not primary differences).
CollationOrder == " -.:/0123456789abcdefghijklmnopqrstuvwxyz"

WeightTable ==
    [c \in {CharAt(CollationOrder, k) : k \in 1..Len(CollationOrder)} |->
        CHOOSE k \in 1..Len(CollationOrder) : CharAt(CollationOrder, k) = c]

CharWeight(c) ==
    LET l == IF c = "ä" THEN "a" ELSE LowerOf(c)
    IN  IF l \in DOMAIN WeightTable THEN WeightTable[l]
        ELSE Len(CollationOrder) + 1

\* a.localeCompare(b): negative, zero or positive.
RECURSIVE CompareFrom(_, _, _)
CompareFrom(a, b, i) ==
    IF i > Len(a) /\ i > Len(b) THEN 0
    ELSE IF i > Len(a) THEN -1
    ELSE IF i > Len(b) THEN 1
    ELSE LET wa == CharWeight(CharAt(a, i))
             wb == CharWeight(CharAt(b, i))
         IN  IF wa < wb THEN -1
             ELSE IF wa > wb THEN 1
             ELSE CompareFrom(a, b, i + 1)

localeCompare(a, b) == CompareFrom(a, b, 1)

\* The distinct values of s in order of first occurrence (Set / Map keys).
Distinct(s) ==
    LET firsts == {i \in 1..Len(s) : \A j \in 1..(i - 1) : s[j] # s[i]}
    IN  [k \in 1..Cardinality(firsts) |->
            s[CHOOSE i \in firsts : Cardinality({j \in firsts : j <= i}) = k]]

\* Number(str) for the strings that reach it: optional sign and digits.
NumberOf(str) ==
    IF Len(str) > 0 /\ CharAt(str, 1) = "-"
    THEN 0 - DigitsToNat(SubSeq(str, 2, Len(str)))
    ELSE DigitsToNat(str)

-----------------------------------------------------------------------------
(* categories, slotOptions                                                 *)

categoriesOf(list) ==
    LET named == SelectSeq(list,
                     LAMBDA t : t.category # Null /\ Truthy(t.category[1])
                                  /\ Truthy(trim(t.category[1])))
        names == Distinct([i \in 1..Len(named) |-> trim(named[i].category[1])])
    IN  SortedBy(names, [a \in Elems(names), b \in Elems(names) |->
                            localeCompare(a, b)])

categories == categoriesOf(normalizedTrends)

\* The sorted keys of slotOptions.
slotKeysOf(list, g, tz) ==
    LET keys == Distinct([i \in 1..Len(list) |-> slotKeyForTrend(list[i], g, tz)])
        cmp(a, b) ==
            IF endsWith(a, ":unknown") /\ ~endsWith(b, ":unknown") THEN 1
            ELSE IF ~endsWith(a, ":unknown") /\ endsWith(b, ":unknown") THEN -1
            ELSE LET av == Coalesce(SplitPart(a, ":", 1), "")
                     bv == Coalesce(SplitPart(b, ":", 1), "")
                 IN  IF endsWith(a, ":unknown") THEN 0
                     ELSE IF g = "week" THEN NumberOf(bv) - NumberOf(av)
                     ELSE localeCompare(bv, av)
    IN  SortedBy(keys, [a \in Elems(keys), b \in Elems(keys) |-> cmp(a, b)])

slotOptionsOf(list, g, tz) ==
    LET sorted == slotKeysOf(list, g, tz)
    IN  [i \in 1..Len(sorted) |->
            [key |-> sorted[i], label |-> slotLabelFromKey(sorted[i], g, tz)]]

slotOptions == slotOptionsOf(normalizedTrends, groupBy, tzOffset)

slotKeys == slotKeysOf(normalizedTrends, groupBy, tzOffset)

-----------------------------------------------------------------------------
(* filtered                                                                *)

\* The score test with <= for <.
scoreBelow_orEqual(t, min) == Coalesce(t.relevance_score, 0) <= min

\* (t.relevance_score ?? 0) < min
scoreBelow(t, min) == Coalesce(t.relevance_score, 0) < min

\* The category test without the trim.
categoryMismatch_noTrim(t, selCategory) ==
    selCategory # "all" /\ Coalesce(t.category, "") # selCategory

\* selectedCategory !== "all" && category !== selectedCategory
categoryMismatch(t, selCategory) ==
    LET category == trim(Coalesce(t.category, ""))
    IN  selCategory # "all" /\ category # selCategory

\* The slot test with the week key in every grouping mode.
slotMismatch_weekKey(t, selSlot, g, tz) ==
    selSlot # "all" /\ slotKeyForTrend(t, "week", tz) # selSlot

\* selectedSlot !== "all" && slotKeyForTrend(t, groupBy) !== selectedSlot
slotMismatch(t, selSlot, g, tz) ==
    selSlot # "all" /\ slotKeyForTrend(t, g, tz) # selSlot

\* The search test looking at the topic only.
searchMiss_topicOnly(t, q) ==
    Truthy(q) /\ ~includes(toLowerCase(Coalesce(t.topic, "")), q)

\* q && !matches
searchMiss(t, q) ==
    /\ Truthy(q)
    /\ ~ \/ includes(toLowerCase(Coalesce(t.topic, "")), q)
         \/ includes(toLowerCase(Coalesce(t.summary, "")), q)
         \/ includes(toLowerCase(Coalesce(t.category, "")), q)

filteredOf(list, minSc, selCategory, selSlot, g, query, tz) ==
    LET min == clamp01(minSc)
        q   == trim(toLowerCase(query))
        keep(t) ==
            IF scoreBelow(t, min) THEN FALSE
            ELSE IF categoryMismatch(t, selCategory) THEN FALSE
            ELSE IF slotMismatch(t, selSlot, g, tz) THEN FALSE
            ELSE IF searchMiss(t, q) THEN FALSE
            ELSE TRUE
    IN  SelectSeq(list, keep)

filtered ==
    filteredOf(normalizedTrends, minScore, selectedCategory, selectedSlot,
               groupBy, searchQuery, tzOffset)

-----------------------------------------------------------------------------
(* grouped                                                                 *)

\* Number(label.replace(/\D/g, "")) || 0
RECURSIVE DigitsFrom(_, _)
DigitsFrom(s, i) ==
    IF i > Len(s) THEN ""
    ELSE (IF IsDigit(CharAt(s, i)) THEN CharAt(s, i) ELSE "") \o DigitsFrom(s, i + 1)

DigitsOnly(s) == DigitsFrom(s, 1)

\* grouped with unshift for push: the newest record of a bucket comes first.
groupedOf_unshift(list, g, tz) ==
    LET labelOf == [i \in 1..Len(list) |->
                       slotLabelFromKey(slotKeyForTrend(list[i], g, tz), g, tz)]
        cmp(a, b) ==
            LET aU == startsWith(a, "Ohne")
                bU == startsWith(b, "Ohne")
            IN  IF aU /\ ~bU THEN 1
                ELSE IF ~aU /\ bU THEN -1
                ELSE IF g = "week"
                THEN DigitsToNat(DigitsOnly(b)) - DigitsToNat(DigitsOnly(a))
                ELSE localeCompare(b, a)
        labels == Distinct(labelOf)
        sorted == SortedBy(labels, [a \in Elems(labels), b \in Elems(labels) |->
                                       cmp(a, b)])
        at(label) == SelectSeq([i \in 1..Len(list) |-> i],
                               LAMBDA i : labelOf[i] = label)
    IN  [k \in 1..Len(sorted) |->
            [label |-> sorted[k],
             items |-> [j \in 1..Len(at(sorted[k])) |->
                           list[at(sorted[k])[Len(at(sorted[k])) + 1 - j]]]]]

groupedOf(list, g, tz) ==
    LET labelOf == [i \in 1..Len(list) |->
                       slotLabelFromKey(slotKeyForTrend(list[i], g, tz), g, tz)]
        cmp(a, b) ==
            LET aU == startsWith(a, "Ohne")
                bU == startsWith(b, "Ohne")
            IN  IF aU /\ ~bU THEN 1
                ELSE IF ~aU /\ bU THEN -1
                ELSE IF g = "week"
                THEN DigitsToNat(DigitsOnly(b)) - DigitsToNat(DigitsOnly(a))
                ELSE localeCompare(b, a)
        labels == Distinct(labelOf)
        sorted == SortedBy(labels, [a \in Elems(labels), b \in Elems(labels) |->
                                       cmp(a, b)])
        at(label) == SelectSeq([i \in 1..Len(list) |-> i],
                               LAMBDA i : labelOf[i] = label)
    IN  [k \in 1..Len(sorted) |->
            [label |-> sorted[k],
             items |-> [j \in 1..Len(at(sorted[k])) |-> list[at(sorted[k])[j]]]]]

grouped == groupedOf(filtered, groupBy, tzOffset)

-----------------------------------------------------------------------------
(* kpis: category counts                                                   *)

Uncategorized == "Unkategorisiert"

\* (t.category ?? "").trim() || "Unkategorisiert"
categoryLabel(t) ==
    IF Truthy(trim(Coalesce(t.category, "")))
    THEN trim(Coalesce(t.category, "")) ELSE Uncategorized

\* The entries of the categoryCount map, in insertion order.
categoryCountOf(list) ==
    LET names == Distinct([i \in 1..Len(list) |-> categoryLabel(list[i])])
    IN  [i \in 1..Len(names) |->
            [name |-> names[i],
             value |-> Cardinality({k \in 1..Len(list) :
                                      categoryLabel(list[k]) = names[i]})]]

categoryCount == categoryCountOf(filtered)

-----------------------------------------------------------------------------
(* kpis                                                                    *)

\* (t.relevance_score ?? 0) of the i-th record.
ScoreOrZero(list, i) == Coalesce(list[i].relevance_score, 0)

\* filtered.map((t) => t.relevance_score).filter(typeof v === "number")
scoresOf(list) ==
    LET present == SelectSeq(list, LAMBDA t : t.relevance_score # Null)
    IN  [i \in 1..Len(present) |-> present[i].relevance_score[1]]

\* scores.reduce((a, b) => a + b, 0)
RECURSIVE SumFirst(_, _)
SumFirst(s, n) == IF n = 0 THEN 0 ELSE SumFirst(s, n - 1) + s[n]

\* The mean with an absent score counted as 0.
avgScoreOf_absentAsZero(list) ==
    LET scores == [i \in 1..Len(list) |-> ScoreOrZero(list, i)]
    IN  IF Len(scores) # 0
        THEN Some([sum |-> SumFirst(scores, Len(scores)), length |-> Len(scores)])
        ELSE Null

\* The mean of the present scores as the fraction sum / length (in
\* hundredths), null when no record has a score.
avgScoreOf(list) ==
    LET scores == scoresOf(list)
    IN  IF Len(scores) # 0
        THEN Some([sum |-> SumFirst(scores, Len(scores)), length |-> Len(scores)])
        ELSE Null

highPriorityOf(list) ==
    Cardinality({i \in 1..Len(list) : ScoreOrZero(list, i) >= 80})

\* The sort with equal counts put in alphabetical order.
sortedCategoryCountOf_byName(list) ==
    LET entries == categoryCountOf(list)
    IN  SortedBy(entries, [a \in Elems(entries), b \in Elems(entries) |->
                              IF b.value # a.value THEN b.value - a.value
                              ELSE localeCompare(a.name, b.name)])

\* Array.from(categoryCount.entries()).sort((a, b) => b[1] - a[1])
sortedCategoryCountOf(list) ==
    LET entries == categoryCountOf(list)
    IN  SortedBy(entries, [a \in Elems(entries), b \in Elems(entries) |->
                              b.value - a.value])

\* U+2014, the placeholder shown for "no category", written in ASCII.
EmDash == "--"

\* ...sort(...)[0]?.[0] ?? "\u2014"
topCategoryOf(list) ==
    LET sorted == sortedCategoryCountOf(list)
    IN  IF Len(sorted) > 0 THEN sorted[1].name ELSE EmDash

distHighOf(list) ==
    Cardinality({i \in 1..Len(list) : ScoreOrZero(list, i) >= 80})

\* The middle band with its upper end closed.
distMidOf_closed(list) ==
    Cardinality({i \in 1..Len(list) : /\ ScoreOrZero(list, i) >= 60
                                       /\ ScoreOrZero(list, i) <= 80})

distMidOf(list) ==
    Cardinality({i \in 1..Len(list) : /\ ScoreOrZero(list, i) >= 60
                                       /\ ScoreOrZero(list, i) < 80})

distLowOf(list) ==
    Cardinality({i \in 1..Len(list) : ScoreOrZero(list, i) < 60})

BarLimit == 6

\* ...sort(...).slice(0, 6).map(([name, value]) => ({ name, value }))
barsOf(list) ==
    LET sorted == sortedCategoryCountOf(list)
    IN  SubSeq(sorted, 1, Min(BarLimit, Len(sorted)))

kpisOf(list) ==
    [count        |-> Len(list),
     avgScore     |-> avgScoreOf(list),
     topCategory  |-> topCategoryOf(list),
     highPriority |-> highPriorityOf(list),
     distHigh     |-> distHighOf(list),
     distMid      |-> distMidOf(list),
     distLow      |-> distLowOf(list),
     bars         |-> barsOf(list)]

kpis == kpisOf(filtered)

-----------------------------------------------------------------------------
(* Number arithmetic of donutStyle: IEEE 754 binary64, round to nearest,   *)
(* ties to even.  A natural number of any size is the sequence of its      *)
(* binary digits, least significant first, without zero digits at the top; *)
(* a Number is [m, e] with the value m * 2^e, m odd and of at most 53      *)
(* digits, or [m |-> <<>>, e |-> 0] for 0.  The values that occur are far  *)
(* from the subnormal and the overflow range.                              *)

Precision == 53

RECURSIVE BitsOf(_)
BitsOf(n) == IF n = 0 THEN <<>> ELSE <<n % 2>> \o BitsOf(n \div 2)

BitAt(a, i) == IF i <= Len(a) THEN a[i] ELSE 0

RECURSIVE AddFrom(_, _, _, _)
AddFrom(a, b, i, carry) ==
    IF i > Len(a) /\ i > Len(b) THEN (IF carry = 1 THEN <<1>> ELSE <<>>)
    ELSE LET sum == BitAt(a, i) + BitAt(b, i) + carry
         IN  <<sum % 2>> \o AddFrom(a, b, i + 1, sum \div 2)

BigAdd(a, b) == AddFrom(a, b, 1, 0)

ShiftLeft(a, k) == IF a = <<>> THEN <<>> ELSE [i \in 1..k |-> 0] \o a

RECURSIVE TrimTop(_)
TrimTop(a) ==
    IF Len(a) > 0 /\ a[Len(a)] = 0 THEN TrimTop(SubSeq(a, 1, Len(a) - 1)) ELSE a

\* a * c for a small natural c, by shifting and adding.
RECURSIVE MulFrom(_, _, _)
MulFrom(a, cbits, i) ==
    IF i > Len(cbits) THEN <<>>
    ELSE BigAdd(IF cbits[i] = 1 THEN ShiftLeft(a, i - 1) ELSE <<>>,
                MulFrom(a, cbits, i + 1))

BigMul(a, c) == MulFrom(a, BitsOf(c), 1)

BigLess(a, b) ==
    \/ Len(a) < Len(b)
    \/ /\ Len(a) = Len(b)
       /\ \E i \in 1..Len(a) :
             /\ a[i] < b[i]
             /\ \A j \in (i + 1)..Len(a) : a[j] = b[j]

NumZero == [m |-> <<>>, e |-> 0]

\* m * 2^e with the zero digits at the low end of m moved into e.
Canon(m, e) ==
    IF m = <<>> THEN NumZero
    ELSE LET z == (CHOOSE i \in 1..Len(m) :
                      m[i] = 1 /\ \A j \in 1..(i - 1) : m[j] = 0) - 1
         IN  [m |-> SubSeq(m, z + 1, Len(m)), e |-> e + z]

\* The Number nearest to m * 2^e.
RoundNearestEven(m, e) ==
    IF Len(m) <= Precision THEN Canon(m, e)
    ELSE LET d      == Len(m) - Precision
             kept   == SubSeq(m, d + 1, Len(m))
             guard  == m[d]
             sticky == \E i \in 1..(d - 1) : m[i] = 1
             up     == guard = 1 /\ (sticky \/ kept[1] = 1)
         IN  Canon(IF up THEN BigAdd(kept, <<1>>) ELSE kept, e + d)

NumOf(n) == RoundNearestEven(BitsOf(n), 0)

DivDigits == 64

\* k binary digits of r / t after the point, most significant first, then a
\* digit that is 1 iff a remainder is left.
RECURSIVE FracBits(_, _, _)
FracBits(r, t, k) ==
    IF k = 0 THEN <<IF r # 0 THEN 1 ELSE 0>>
    ELSE LET b == IF 2 * r >= t THEN 1 ELSE 0
         IN  <<b>> \o FracBits(2 * r - b * t, t, k - 1)

\* n / t for naturals n and t > 0 (the operands are exact Numbers).
NumDiv(n, t) ==
    LET frac == FracBits(n % t, t, DivDigits)
        low  == [i \in 1..Len(frac) |-> frac[Len(frac) + 1 - i]]
    IN  RoundNearestEven(TrimTop(low \o BitsOf(n \div t)), 0 - (DivDigits + 1))

\* x * c for a Number x and a natural c that is an exact Number.
NumMul(x, c) == RoundNearestEven(BigMul(x.m, c), x.e)

\* x + y
NumAdd(x, y) ==
    LET e == Min(x.e, y.e)
    IN  RoundNearestEven(BigAdd(ShiftLeft(x.m, x.e - e), ShiftLeft(y.m, y.e - e)), e)

\* x <= y
NumLeq(x, y) ==
    LET e == Min(x.e, y.e)
        a == ShiftLeft(x.m, x.e - e)
        b == ShiftLeft(y.m, y.e - e)
    IN  a = b \/ BigLess(a, b)

-----------------------------------------------------------------------------
(* donutStyle                                                              *)

\* (n / total) * 100
Pct(n, total) == NumMul(NumDiv(n, total), 100)

\* The colour stops of the conic gradient are kept as Numbers; the template
\* string prints each of them followed by "%".
donutStyleOf(k) ==
    LET total   == Max(1, k.distHigh + k.distMid + k.distLow)
        highPct == Pct(k.distHigh, total)
        midPct  == Pct(k.distMid, total)
        lowPct  == Pct(k.distLow, total)
    IN  [total   |-> k.distHigh + k.distMid + k.distLow,
         highPct |-> highPct,
         midPct  |-> midPct,
         lowPct  |-> lowPct,
         stops   |-> <<highPct, NumAdd(highPct, midPct),
                       NumAdd(NumAdd(highPct, midPct), lowPct)>>]

donutStyle == donutStyleOf(kpis)

-----------------------------------------------------------------------------
(* extractDomain, bySource                                                 *)

AlphaChars ==
    {CharAt(LowerChars, k) : k \in 1..Len(LowerChars)}
    \cup {CharAt(UpperChars, k) : k \in 1..Len(UpperChars)}

\* Position of the first character of s at or after from that is in stops,
\* Len(s) + 1 if none.
RECURSIVE IndexOfAny(_, _, _)
IndexOfAny(s, stops, from) ==
    IF from > Len(s) THEN Len(s) + 1
    ELSE IF CharAt(s, from) \in stops THEN from
    ELSE IndexOfAny(s, stops, from + 1)

\* Position of the last sep in s, 0 if none.
RECURSIVE LastIndexOf(_, _, _)
LastIndexOf(s, sep, from) ==
    IF from < 1 THEN 0
    ELSE IF CharAt(s, from) = sep THEN from
    ELSE LastIndexOf(s, sep, from - 1)

\* Length of the scheme of an absolute URL (an ASCII letter, then letters,
\* digits, "+", "-" and "." up to a ":"), 0 if s does not start with one.
SchemeLen(s) ==
    LET colon == IndexOfAny(s, {":"}, 1)
    IN  IF /\ colon <= Len(s) /\ colon > 1
           /\ CharAt(s, 1) \in AlphaChars
           /\ \A i \in 2..(colon - 1) :
                 \/ CharAt(s, i) \in AlphaChars
                 \/ IsDigit(CharAt(s, i))
                 \/ CharAt(s, i) \in {"+", "-", "."}
        THEN colon - 1 ELSE 0

SpecialSchemes == {"http", "https", "ftp", "ws", "wss"}

\* Code points a host of a special scheme must not contain.
ForbiddenHostChars ==
    {" ", "\t", "\n", "#", "/", ":", "<", ">", "?", "@", "[", "\\", "]", "^", "|", "%"}

\* The host of an authority: after the credentials, before the port.
HostOfAuthority(authority) ==
    LET at   == LastIndexOf(authority, "@", Len(authority))
        rest == SubSeq(authority, at + 1, Len(authority))
    IN  SubSeq(rest, 1, IndexOfAny(rest, {":"}, 1) - 1)

\* The port of an authority, "" if it has none.
PortOfAuthority(authority) ==
    LET at   == LastIndexOf(authority, "@", Len(authority))
        rest == SubSeq(authority, at + 1, Len(authority))
    IN  SubSeq(rest, IndexOfAny(rest, {":"}, 1) + 1, Len(rest))

\* new URL(url).hostname as a nullable string, null when the constructor
\* throws: input without a scheme has no base to resolve against and a
\* special scheme needs a valid host.  Hosts are taken as ASCII names (no
\* IPv6 literal, no percent escape, no IDNA mapping).
URLHostname(url) ==
    LET input  == trim(url)
        n      == SchemeLen(input)
        scheme == toLowerCase(SubSeq(input, 1, n))
        after  == SubSeq(input, n + 2, Len(input))
    IN  IF n = 0 THEN Null
        ELSE IF scheme \in SpecialSchemes
        THEN LET start == CHOOSE i \in 1..(Len(after) + 1) :
                              /\ \A j \in 1..(i - 1) : CharAt(after, j) \in {"/", "\\"}
                              /\ i > Len(after) \/ CharAt(after, i) \notin {"/", "\\"}
                 stop  == IndexOfAny(after, {"/", "\\", "?", "#"}, start)
                 host  == HostOfAuthority(SubSeq(after, start, stop - 1))
                 port  == PortOfAuthority(SubSeq(after, start, stop - 1))
             IN  IF \/ host = ""
                    \/ \E i \in 1..Len(host) : CharAt(host, i) \in ForbiddenHostChars
                    \/ ~AllDigits(port)
                 THEN Null
                 ELSE Some(toLowerCase(host))
        ELSE IF startsWith(after, "//")
        THEN LET stop == IndexOfAny(after, {"/", "?", "#"}, 3)
             IN  Some(HostOfAuthority(SubSeq(after, 3, stop - 1)))
        ELSE Some("")

UnknownSource == "Unbekannte Quelle"

DomainSliceLen == 40

\* try { hostname.replace(/^www\./, "") } catch { url.slice(0, 40) || ... }
extractDomain(url) ==
    LET hostname == URLHostname(url)
        head     == SubSeq(url, 1, Min(DomainSliceLen, Len(url)))
    IN  IF hostname # Null
        THEN IF startsWith(hostname[1], "www.")
             THEN SubSeq(hostname[1], 5, Len(hostname[1]))
             ELSE hostname[1]
        ELSE IF Truthy(head) THEN head ELSE UnknownSource

\* The domain bySource files a record under.
domainOf(t) ==
    IF Truthy(trim(Coalesce(t.url, "")))
    THEN extractDomain(trim(Coalesce(t.url, "")))
    ELSE UnknownSource

DefaultOpenLimit == 3

\* The domain of each record of a bucket, in the bucket's order.
domainsOf(items) ==
    SubSeq([i \in 1..Len(items) |-> domainOf(items[i])], 1, Len(items))

\* The records at the positions idx, in that order.
ItemsAt(items, idx) == [j \in 1..Len(idx) |-> items[idx[j]]]

\* The entries of the bySource map in insertion order, given the domain of
\* each record: one entry per distinct domain with its records in order.
bySourceFrom(items, domainAt) ==
    CHOOSE entries \in
        {[k \in 1..Len(domains) |->
             [domain      |-> domains[k],
              sourceItems |-> ItemsAt(items,
                                  SelectSeq([i \in 1..Len(items) |-> i],
                                            LAMBDA i : domainAt[i] = domains[k]))]]
           : domains \in {Distinct(domainAt)}} : TRUE

bySourceOf(items) ==
    CHOOSE entries \in
        {bySourceFrom(items, domainAt) : domainAt \in {domainsOf(items)}} : TRUE

\* sortedSources of one bucket: the clusters by descending size (a stable
\* sort of the Map entries), each with its key in sourceGroupOpen and its
\* default state.
sortedSourcesOf(label, items) ==
    CHOOSE clusters \in
        {[k \in 1..Len(sorted) |->
             [domain      |-> sorted[k].domain,
              sourceItems |-> sorted[k].sourceItems,
              groupKey    |-> label \o "::" \o sorted[k].domain,
              defaultOpen |-> Len(sorted[k].sourceItems) <= DefaultOpenLimit]]
           : sorted \in
               {SortedBy(entries, [a \in Elems(entries), b \in Elems(entries) |->
                                     Len(b.sourceItems) - Len(a.sourceItems)])
                  : entries \in {bySourceOf(items)}}} : TRUE

-----------------------------------------------------------------------------
(* Bounds and input domains                                                *)

MaxNormLen == 2      \* longest row list fed to the normalizer
MaxLoads   == 3      \* loadTrends calls that issue a fetch, per behaviour

TZOffsets == {-5, 0, 2}

EmptyRow ==
    [topic |-> Null, category |-> Null, relevance_score |-> Null,
     summary |-> Null, spotify_impact |-> Null, url |-> Null,
     published_date |-> Null, week_number |-> Null]

TextFields == {"topic", "summary", "spotify_impact", "url", "category"}

\* Rows that exercise every field of the normalizer on its own, and the
\* combinations of week_number with published_date.
NormRows ==
    {EmptyRow}
    \cup {[EmptyRow EXCEPT !.topic = v] : v \in {Some(""), Some(" x ")}}
    \cup {[EmptyRow EXCEPT !.summary = v] : v \in {Some(" "), Some(" x ")}}
    \cup {[EmptyRow EXCEPT !.category = v] : v \in {Some(" "), Some(" x ")}}
    \cup {[EmptyRow EXCEPT ![f] = Some(" x ")] : f \in {"spotify_impact", "url"}}
    \cup {[EmptyRow EXCEPT !.published_date = Some(s)] :
            s \in {"", " ", "n/a", "2026-02-10", "2024-12-31", "2026-02-09"}}
    \cup {[EmptyRow EXCEPT !.relevance_score = Some(0)]}
    \cup {[EmptyRow EXCEPT !.week_number = Some(w)] : w \in {-1, 0, 5}}
    \cup {[EmptyRow EXCEPT !.week_number = Some(w),
                           !.published_date = Some("2026-02-10")] : w \in {0, 3}}
    \cup {[EmptyRow EXCEPT !.week_number = Some(3), !.published_date = Some("n/a")]}

MaxFilterLen == 2    \* longest row list fed to the filter pipeline

\* Rows for the filter pipeline: scores on the initial threshold, below it and
\* out of range, padded and blank categories, dated, undated and week-only rows.
FilterRows ==
    { [EmptyRow EXCEPT !.topic = Some("Abc"), !.category = Some(" Spotify "),
                       !.relevance_score = Some(50),
                       !.published_date = Some("2026-02-10"),
                       !.week_number = Some(5)],
      [EmptyRow EXCEPT !.summary = Some("x abc"), !.category = Some("Lab"),
                       !.relevance_score = Some(150),
                       !.published_date = Some("2026-02-09")],
      [EmptyRow EXCEPT !.topic = Some("b")],
      [EmptyRow EXCEPT !.topic = Some("KW"), !.category = Some(" "),
                       !.relevance_score = Some(0),
                       !.published_date = Some("2026-03-01"),
                       !.week_number = Some(0)],
      [EmptyRow EXCEPT !.category = Some(""), !.relevance_score = Some(-10),
                       !.published_date = Some("n/a"),
                       !.week_number = Some(-1)] }

MinScoreInputs == {0, 50}
SearchInputs == {"", " AB "}
FilterTZOffsets == {-5, 2}

MaxGroupLen == 3     \* longest row list fed to the grouping engine

\* Rows for the grouping engine: weeks above, at and below zero and missing,
\* days of one and of two digits in different months, a row with neither.
GroupRows ==
    { [EmptyRow EXCEPT !.topic = Some("a"), !.category = Some("Spotify"),
                       !.relevance_score = Some(90),
                       !.published_date = Some("2026-02-10"),
                       !.week_number = Some(5)],
      [EmptyRow EXCEPT !.topic = Some("b"), !.category = Some("Lab"),
                       !.relevance_score = Some(60),
                       !.published_date = Some("2026-03-01"),
                       !.week_number = Some(2)],
      [EmptyRow EXCEPT !.topic = Some("c")],
      [EmptyRow EXCEPT !.topic = Some("d"), !.relevance_score = Some(70),
                       !.published_date = Some("2026-04-05"),
                       !.week_number = Some(-3)],
      [EmptyRow EXCEPT !.topic = Some("e"), !.relevance_score = Some(30),
                       !.published_date = Some("n/a"),
                       !.week_number = Some(0)] }

MaxKpiLen == 8       \* longest row list fed to the KPI aggregation

\* Categories and scores of the rows for the KPIs, by position: a category
\* that comes twice (once padded), missing and blank categories, more than
\* six categories in all; scores on both band edges, next to them, absent.
KpiCategoryCycle ==
    <<Some("A"), Some("B"), Some(" B "), Null, Some("C"), Some("D"), Some("E"),
      Some("F"), Some(" ")>>

KpiScoreCycle ==
    <<Some(80), Some(79), Some(60), Null, Some(59), Some(100), Some(0),
      Some(80), Null>>

KpiRow(i) ==
    [EmptyRow EXCEPT !.topic = Some("t"),
                     !.category = KpiCategoryCycle[((i - 1) % Len(KpiCategoryCycle)) + 1],
                     !.relevance_score = KpiScoreCycle[((i - 1) % Len(KpiScoreCycle)) + 1]]

KpiBase == [i \in 1..MaxKpiLen |-> KpiRow(i)]

Reverse(s) == [i \in 1..Len(s) |-> s[Len(s) + 1 - i]]

\* The row lists made of some of the rows of base, in the order of base,
\* with ids 1..Len in list order.
SubLists(base) ==
    {LET idx == SelectSeq([i \in 1..Len(base) |-> i], LAMBDA i : i \in S)
     IN  [k \in 1..Len(idx) |-> WithId(base[idx[k]], k)] :
        S \in SUBSET (1..Len(base))}

KpiLists == SubLists(KpiBase) \cup SubLists(Reverse(KpiBase))

\* process.env of the deployments: fully configured, and with one of the
\* three variables missing or empty.
ConfiguredEnv == [user |-> Some("admin"), pass |-> Some("s3cret"), token |-> Some("tok")]

AuthEnvs ==
    {ConfiguredEnv,
     [ConfiguredEnv EXCEPT !.token = Null],
     [ConfiguredEnv EXCEPT !.token = Some("")],
     [ConfiguredEnv EXCEPT !.user = Null],
     [ConfiguredEnv EXCEPT !.pass = Some("")]}

\* Paths requested: pages, the login page, the login endpoint and paths
\* that only start like it, static assets.
AuthPaths ==
    {"/", "/export", "/login", "/login/x", "/api/auth/login", "/api/auth/loginx",
     "/api/trends", "/_next/static/a.js", "/_next/data/a.json", "/favicon.ico"}

\* Cookies a client can send besides the one in its cookie store: none, a
\* guess, the empty string, the token itself.
ForgedCookies == {Null, Some("guess"), Some(""), Some("tok")}

\* Fields of a login body: missing or not a string, empty, wrong, right.
LoginUsers == {Null, Some(""), Some("admin"), Some("Admin")}
LoginPasses == {Null, Some(""), Some("s3cret"), Some("tok")}
LoginNexts == {Null, Some("/export"), Some("https://example.org/")}

LoginBodies == [user : LoginUsers, pass : LoginPasses, next : LoginNexts]

FirstWeekYear == 2020
MaxWeekYears == 8    \* calendar years, from FirstWeekYear on, the page is opened in

\* The instants the page is opened at: the first and the last hour (UTC) of
\* every day of the years FirstWeekYear .. FirstWeekYear + MaxWeekYears - 1.
OpenedAt ==
    {day * HoursPerDay + h :
        day \in DaysFromCivil(FirstWeekYear, 1, 1)
                  .. (DaysFromCivil(FirstWeekYear + MaxWeekYears, 1, 1) - 1),
        h \in {0, 23}}

MaxExportLen == 5    \* longest row list fed to the export selection

\* Dates, weeks, scores and categories of the rows for the export, by
\* position: weeks 4, 5, 5 and 6 (one of the two week-5 rows gets its week
\* from its date), a first day of a month (the last day of the month before
\* for a viewer west of Greenwich), an unparsable date, a row with neither,
\* a week of zero; one row below the initial score floor.
ExportDateCycle ==
    <<Some("2026-01-25"), Some("2026-02-01"), Some("2026-02-01"), Some("n/a"),
      Null, Some("2026-03-15")>>

ExportWeekCycle == <<Some(4), Some(5), Null, Some(6), Null, Some(0)>>

ExportScoreCycle == <<Some(90), Some(60), Some(30), Some(70), Null, Some(80)>>

ExportCategoryCycle == <<Some("A"), Some("B"), Some("A"), Null, Null, Some("B")>>

ExportRow(i) ==
    [EmptyRow EXCEPT !.topic = Some("t"),
                     !.published_date = ExportDateCycle[((i - 1) % Len(ExportDateCycle)) + 1],
                     !.week_number = ExportWeekCycle[((i - 1) % Len(ExportWeekCycle)) + 1],
                     !.relevance_score = ExportScoreCycle[((i - 1) % Len(ExportScoreCycle)) + 1],
                     !.category = ExportCategoryCycle[((i - 1) % Len(ExportCategoryCycle)) + 1]]

ExportBase == [i \in 1..MaxExportLen |-> ExportRow(i)]

MaxExports == 3      \* handleExcelExport calls that start an export, per behaviour

MaxSourceLen == 6    \* longest row list fed to the source clustering

\* URLs, weeks and scores of the rows for the source clustering, by
\* position: four pages of one site (with and without "www.", padded, in
\* capitals), one of them below the initial score floor, a row without URL,
\* a row whose URL is no URL, the site again in another week, a blank URL.
SourceUrlCycle ==
    <<Some("https://www.example.com/a"), Some("https://example.com/b"),
      Some("http://EXAMPLE.com"), Some(" https://www.example.com/c?x=1 "),
      Null, Some("n/a"), Some("https://example.com/d"), Some(" ")>>

SourceWeekCycle == <<Null, Null, Null, Null, Null, Null, Some(5), Null>>

SourceScoreCycle ==
    <<Some(90), Some(60), Some(30), Some(70), Some(80), Some(80), Some(80),
      Some(80)>>

SourceRow(i) ==
    [EmptyRow EXCEPT !.topic = Some("t"),
                     !.url = SourceUrlCycle[((i - 1) % Len(SourceUrlCycle)) + 1],
                     !.week_number = SourceWeekCycle[((i - 1) % Len(SourceWeekCycle)) + 1],
                     !.relevance_score = SourceScoreCycle[((i - 1) % Len(SourceScoreCycle)) + 1]]

SourceBase == [i \in 1..MaxSourceLen |-> SourceRow(i)]

SourceLists == SubLists(SourceBase)

\* All row lists of length <= n over rows, with ids 1..Len in list order.
\* The query asks for rows by published_date and relevance_score, both
\* descending; the page does not rely on that order, so every order is taken.
ListsOver(rows, n) ==
    UNION {{[i \in 1..k |-> WithId(f[i], i)] : f \in [1..k -> rows]} : k \in 0..n}

-----------------------------------------------------------------------------
(* loadTrends                                                              *)

EnvMissingMsg == "Supabase env vars fehlen."
ClientMissingMsg == "Supabase Client konnte nicht initialisiert werden."
FetchFailedMsg == "fetch failed"

InFlight == {i \in 1..Len(loads) : loads[i].phase # "done"}

\* The synchronous part of loadTrends(background), up to the await.
StartLoad(background) ==
    IF config = "noenv" THEN
        /\ loading' = (IF ~background THEN FALSE ELSE loading)
        /\ refreshing' = (IF background THEN FALSE ELSE refreshing)
        /\ error' = Some(EnvMissingMsg)
        /\ UNCHANGED <<loads, trends>>
    ELSE IF config = "noclient" THEN
        /\ loading' = (IF ~background THEN FALSE ELSE loading)
        /\ refreshing' = (IF background THEN FALSE ELSE refreshing)
        /\ error' = Some(ClientMissingMsg)
        /\ UNCHANGED <<loads, trends>>
    ELSE
        /\ loading' = (IF ~background THEN TRUE ELSE loading)
        /\ refreshing' = (IF background THEN TRUE ELSE refreshing)
        /\ error' = Null
        /\ loads' = Append(loads, [background |-> background,
                                   phase |-> "fetching", resp |-> Null])
        /\ UNCHANGED trends

\* The mount effect: void loadTrends(false), then the subscriptions.
Mount ==
    /\ ~mounted
    /\ mounted' = TRUE
    /\ StartLoad(FALSE)
    /\ UNCHANGED <<envVars, otherVars, sourceGroupOpen, serverData, filterVars>>

\* Realtime event, 30 s poll, focus / visibilitychange, refresh button.
BackgroundLoad ==
    /\ mounted
    /\ Len(loads) < MaxLoads
    /\ StartLoad(TRUE)
    /\ UNCHANGED <<envVars, otherVars, sourceGroupOpen, serverData, mounted, filterVars>>

\* Rows of public.trends are inserted, updated or deleted.
ServerChange(data) ==
    /\ data # serverData
    /\ serverData' = data
    /\ UNCHANGED <<envVars, otherVars, sourceGroupOpen, loadVars, filterVars>>

\* The backend answers the query of load i: the rows it holds now, or an error.
FetchRespond(i, ok) ==
    /\ i \in 1..Len(loads)
    /\ loads[i].phase = "fetching"
    /\ loads' = [loads EXCEPT ![i].phase = "responded",
                              ![i].resp = Some([ok |-> ok,
                                  data |-> IF ok THEN serverData ELSE <<>>])]
    /\ UNCHANGED <<envVars, otherVars, sourceGroupOpen, serverData, mounted, trends, loading, refreshing,
                   error, filterVars>>

\* The continuation of loadTrends after the await.
CompleteLoad(i) ==
    /\ i \in 1..Len(loads)
    /\ loads[i].phase = "responded"
    /\ LET r == loads[i].resp[1]
           background == loads[i].background
       IN  /\ IF ~r.ok
              THEN error' = Some(FetchFailedMsg) /\ trends' = <<>>
              ELSE trends' = r.data /\ UNCHANGED error
           /\ loading' = (IF ~background THEN FALSE ELSE loading)
           /\ refreshing' = (IF background THEN FALSE ELSE refreshing)
    /\ loads' = [loads EXCEPT ![i].phase = "done"]
    /\ UNCHANGED <<envVars, otherVars, sourceGroupOpen, serverData, mounted, filterVars>>

-----------------------------------------------------------------------------
(* Filter controls                                                         *)

\* onClick of a grouping button: setGroupBy(value); a change of groupBy
\* schedules the effect that resets the selected slot.
SetGroupBy(g) ==
    /\ ~slotResetPending
    /\ groupBy' = g
    /\ slotResetPending' = (g # groupBy)
    /\ UNCHANGED <<envVars, otherVars, sourceGroupOpen, serverData, loadVars, selectedSlot,
                   selectedCategory, minScore, searchQuery>>

\* useEffect(() => setSelectedSlot("all"), [groupBy])
ResetSlotEffect ==
    /\ slotResetPending
    /\ selectedSlot' = "all"
    /\ slotResetPending' = FALSE
    /\ UNCHANGED <<envVars, otherVars, sourceGroupOpen, serverData, loadVars, groupBy, selectedCategory,
                   minScore, searchQuery>>

\* The entries of the slot dropdown.
slotChoices == {"all"} \cup Elems(slotKeys)

\* The slot dropdown: "all" or one of the offered slot keys.
SetSelectedSlot(key) ==
    /\ ~slotResetPending
    /\ selectedSlot' = key
    /\ UNCHANGED <<envVars, otherVars, sourceGroupOpen, serverData, loadVars, groupBy, selectedCategory,
                   minScore, searchQuery, slotResetPending>>

\* The entries of the category dropdown.
categoryChoices == {"all"} \cup Elems(categories)

\* The category dropdown: "all" or one of the offered categories.
SetSelectedCategory(c) ==
    /\ ~slotResetPending
    /\ selectedCategory' = c
    /\ UNCHANGED <<envVars, otherVars, sourceGroupOpen, serverData, loadVars, groupBy, selectedSlot,
                   minScore, searchQuery, slotResetPending>>

\* The range input (min 0, max 1, step 0.01) and the chip that clears it.
SetMinScore(m) ==
    /\ ~slotResetPending
    /\ m \in 0..100
    /\ minScore' = m
    /\ UNCHANGED <<envVars, otherVars, sourceGroupOpen, serverData, loadVars, groupBy, selectedSlot,
                   selectedCategory, searchQuery, slotResetPending>>

SetSearchQuery(q) ==
    /\ ~slotResetPending
    /\ searchQuery' = q
    /\ UNCHANGED <<envVars, otherVars, sourceGroupOpen, serverData, loadVars, groupBy, selectedSlot,
                   selectedCategory, minScore, slotResetPending>>

-----------------------------------------------------------------------------
(* Source groups                                                           *)

useFlatLayout == Truthy(trim(searchQuery)) \/ selectedCategory # "all"

\* The clusters of the first n buckets, bucket after bucket.
RECURSIVE SourcesOfFirst(_, _)
SourcesOfFirst(groups, n) ==
    IF n = 0 THEN <<>>
    ELSE SourcesOfFirst(groups, n - 1)
           \o sortedSourcesOf(groups[n].label, groups[n].items)

\* The source groups on the page: none while loading, on an error, with no
\* bucket or in the flat layout.
sourceGroupsOf(groups) ==
    IF loading \/ error # Null \/ useFlatLayout THEN <<>>
    ELSE SourcesOfFirst(groups, Len(groups))

sourceGroups == sourceGroupsOf(grouped)

\* groupKey in sourceGroupOpen ? sourceGroupOpen[groupKey] : defaultOpen
isOpen(groupKey, defaultOpen, open) ==
    IF groupKey \in DOMAIN open THEN open[groupKey] ELSE defaultOpen

\* toggleSourceGroup writing the default back instead of its inverse.
toggleSourceGroup_keepDefault(prev, key, defaultOpen) ==
    [k \in DOMAIN prev \cup {key} |->
        IF k = key
        THEN (IF key \in DOMAIN prev THEN ~prev[key] ELSE defaultOpen)
        ELSE prev[k]]

\* The updater of toggleSourceGroup.
toggleSourceGroup(prev, key, defaultOpen) ==
    [k \in DOMAIN prev \cup {key} |->
        IF k = key
        THEN ~(IF key \in DOMAIN prev THEN prev[key] ELSE defaultOpen)
        ELSE prev[k]]

\* onToggle of a source group on the page.
ToggleSourceGroup(key, defaultOpen) ==
    /\ sourceGroupOpen' = toggleSourceGroup(sourceGroupOpen, key, defaultOpen)
    /\ UNCHANGED <<envVars, otherVars, serverData, loadVars, filterVars>>

-----------------------------------------------------------------------------
(* Current week                                                            *)

currentWeek == getISOWeek(now, tzOffset)

previousWeek == IF currentWeek > 1 THEN currentWeek - 1 ELSE 52

-----------------------------------------------------------------------------
(* Export                                                                  *)

\* exportMonths: the month keys of the dated records, newest first.
exportMonthsOf(list, tz) ==
    LET dated == SelectSeq(list, LAMBDA t : safeDate(t.published_date) # Null)
        keys  == Distinct([i \in 1..Len(dated) |->
                              monthKey(safeDate(dated[i].published_date)[1], tz)])
    IN  SortedBy(keys, [a \in Elems(keys), b \in Elems(keys) |-> localeCompare(b, a)])

exportMonths == exportMonthsOf(normalizedTrends, tzOffset)

\* exportWeeks: the positive week numbers, highest first.
exportWeeksOf(list) ==
    LET numbered == SelectSeq(list, LAMBDA t : t.week_number # Null
                                                  /\ t.week_number[1] > 0)
        weeks    == Distinct([i \in 1..Len(numbered) |-> numbered[i].week_number[1]])
    IN  SortedBy(weeks, [a \in Elems(weeks), b \in Elems(weeks) |-> b - a])

exportWeeks == exportWeeksOf(normalizedTrends)

\* The month filter of exportData.
inExportMonth(t, month, tz) ==
    IF safeDate(t.published_date) # Null
    THEN monthKey(safeDate(t.published_date)[1], tz) = month
    ELSE FALSE

\* The week filter of exportData: String(t.week_number ?? "") === exportWeek.
inExportWeek(t, week) ==
    (IF t.week_number # Null THEN NumToString(t.week_number[1]) ELSE "") = week

\* exportData applying the month and the week filter whatever the scope is.
exportDataOf_anyScope(list, scope, month, week, tz) ==
    SelectSeq(list, LAMBDA t : /\ (month # "all" => inExportMonth(t, month, tz))
                               /\ (week # "all" => inExportWeek(t, week)))

exportDataOf(list, scope, month, week, tz) ==
    SelectSeq(list, LAMBDA t :
        /\ (scope = "month" /\ month # "all") => inExportMonth(t, month, tz)
        /\ (scope = "week" /\ week # "all") => inExportWeek(t, week))

exportData ==
    exportDataOf(normalizedTrends, exportScope, exportMonth, exportWeek, tzOffset)

ExportScopes == {"all", "month", "week"}

\* onChange of the scope select.
SetExportScope(scope) ==
    /\ ~slotResetPending
    /\ exportScope' = scope
    /\ UNCHANGED <<envVars, serverData, loadVars, filterVars, sourceGroupOpen,
                   now, authVars, selectedCategories, exportMonth, exportWeek, exporting, exports>>

\* The entries of the month select, rendered in scope "month" only.
exportMonthChoices == {"all"} \cup Elems(exportMonths)

SetExportMonth(month) ==
    /\ ~slotResetPending
    /\ exportScope = "month"
    /\ exportMonth' = month
    /\ UNCHANGED <<envVars, serverData, loadVars, filterVars, sourceGroupOpen,
                   now, authVars, selectedCategories, exportScope, exportWeek, exporting, exports>>

\* The entries of the week select, rendered in scope "week" only.
exportWeekChoices ==
    {"all"} \cup {NumToString(exportWeeks[i]) : i \in 1..Len(exportWeeks)}

SetExportWeek(week) ==
    /\ ~slotResetPending
    /\ exportScope = "week"
    /\ exportWeek' = week
    /\ UNCHANGED <<envVars, serverData, loadVars, filterVars, sourceGroupOpen,
                   now, authVars, selectedCategories, exportScope, exportMonth, exporting, exports>>

\* The early return of handleExcelExport taken for an empty row set only.
exportBlocked_emptyOnly(rows, busy) == Len(rows) = 0

\* exportData.length === 0 || exporting
exportBlocked(rows, busy) == Len(rows) = 0 \/ busy

Running == {i \in 1..Len(exports) : exports[i].phase \in {"importing", "writing"}}

\* handleExcelExport up to its first await: the early return, or
\* setExporting(true) and the import of the workbook library.  The rows
\* written are the exportData of the render the callback belongs to.
HandleExcelExport ==
    /\ ~slotResetPending
    /\ IF exportBlocked(exportData, exporting)
       THEN UNCHANGED <<exporting, exports>>
       ELSE /\ Len(exports) < MaxExports
            /\ exporting' = TRUE
            /\ exports' = Append(exports, [rows |-> exportData, phase |-> "importing"])
    /\ UNCHANGED <<envVars, serverData, loadVars, filterVars, sourceGroupOpen,
                   now, authVars, selectedCategories, exportScope, exportMonth, exportWeek>>

\* await import("exceljs") settles: the sheet is filled and writeBuffer is
\* awaited, or the import is rejected and the finally block runs.
ExportImported(i, ok) ==
    /\ i \in 1..Len(exports)
    /\ exports[i].phase = "importing"
    /\ exports' = [exports EXCEPT ![i].phase = IF ok THEN "writing" ELSE "failed"]
    /\ exporting' = (IF ok THEN exporting ELSE FALSE)
    /\ UNCHANGED <<envVars, serverData, loadVars, filterVars, sourceGroupOpen,
                   now, authVars, selectedCategories, exportScope, exportMonth, exportWeek>>

\* await workbook.xlsx.writeBuffer() settles: the file is handed to the
\* browser, or the call is rejected; the finally block runs either way.
ExportWritten(i, ok) ==
    /\ i \in 1..Len(exports)
    /\ exports[i].phase = "writing"
    /\ exports' = [exports EXCEPT ![i].phase = IF ok THEN "saved" ELSE "failed"]
    /\ exporting' = FALSE
    /\ UNCHANGED <<envVars, serverData, loadVars, filterVars, sourceGroupOpen,
                   now, authVars, selectedCategories, exportScope, exportMonth, exportWeek>>

-----------------------------------------------------------------------------
(* Site protection: middleware and POST /api/auth/login                    *)

LoginPath == "/login"
LoginApiPath == "/api/auth/login"

isPublicPath(pathname) ==
    \/ pathname = LoginPath
    \/ startsWith(pathname, LoginApiPath)
    \/ startsWith(pathname, "/_next/static")
    \/ startsWith(pathname, "/_next/image")
    \/ pathname = "/favicon.ico"

\* NextResponse.next(): the request goes on to its route.
PassOn == [kind |-> "next"]

\* NextResponse.redirect(loginUrl) with ?next=<pathname>.
RedirectToLogin(pathname) ==
    [kind |-> "redirect", pathname |-> LoginPath, next |-> pathname]

\* The middleware letting every request through that carries a cookie.
middleware_anyCookie(env, req) ==
    IF env.token = Null \/ ~Truthy(env.token[1]) THEN PassOn
    ELSE IF isPublicPath(req.pathname) THEN PassOn
    ELSE IF req.cookie # Null THEN PassOn
    ELSE RedirectToLogin(req.pathname)

\* middleware(req): req.cookie is req.cookies.get("site_auth")?.value.
middleware(env, req) ==
    IF env.token = Null \/ ~Truthy(env.token[1]) THEN PassOn
    ELSE IF isPublicPath(req.pathname) THEN PassOn
    ELSE IF req.cookie = env.token THEN PassOn
    ELSE RedirectToLogin(req.pathname)

\* A variable of process.env is set and not empty.
Configured(v) == v # Null /\ Truthy(v[1])

\* typeof body?.field === "string" ? body.field : ""
StringOrEmpty(field) == IF field # Null THEN field[1] ELSE ""

\* POST(req): the response, and the cookie it sets (Null if none).
POST(env, body) ==
    IF ~Configured(env.user) \/ ~Configured(env.pass) \/ ~Configured(env.token)
    THEN [response |-> [kind |-> "json", status |-> 500, ok |-> FALSE, next |-> Null],
          setCookie |-> Null]
    ELSE LET user == StringOrEmpty(body.user)
             pass == StringOrEmpty(body.pass)
             next == IF body.next # Null /\ startsWith(body.next[1], "/")
                     THEN body.next[1] ELSE "/"
         IN  IF user # env.user[1] \/ pass # env.pass[1]
             THEN [response |-> [kind |-> "json", status |-> 401, ok |-> FALSE,
                                 next |-> Null],
                   setCookie |-> Null]
             ELSE [response |-> [kind |-> "json", status |-> 200, ok |-> TRUE,
                                 next |-> Some(next)],
                   setCookie |-> env.token]

pageVars == <<envVars, serverData, loadVars, filterVars, sourceGroupOpen,
              exportVars, now, selectedCategories>>

\* A GET of pathname with the cookie the client chooses to send.
Request(pathname, cookie) ==
    /\ lastRequest' = Some([method |-> "GET", pathname |-> pathname,
                            cookie |-> cookie, body |-> Null])
    /\ lastResponse' = Some(middleware(authEnv, [pathname |-> pathname,
                                                  cookie |-> cookie]))
    /\ UNCHANGED <<pageVars, authEnv, siteAuth>>

\* A POST of body to the login endpoint: the middleware, then the handler;
\* the browser stores the cookie of the response.
Login(body, cookie) ==
    LET req    == [pathname |-> LoginApiPath, cookie |-> cookie]
        passed == middleware(authEnv, req)
        result == POST(authEnv, body)
    IN  /\ lastRequest' = Some([method |-> "POST", pathname |-> LoginApiPath,
                                cookie |-> cookie, body |-> Some(body)])
        /\ IF passed = PassOn
           THEN /\ lastResponse' = Some(result.response)
                /\ siteAuth' = IF result.setCookie # Null THEN result.setCookie
                               ELSE siteAuth
           ELSE /\ lastResponse' = Some(passed)
                /\ UNCHANGED siteAuth
        /\ UNCHANGED <<pageVars, authEnv>>

\* maxAge 12h is over, or the user clears the cookies.
CookieExpires ==
    /\ siteAuth # Null
    /\ siteAuth' = Null
    /\ UNCHANGED <<pageVars, authEnv, lastRequest, lastResponse>>

-----------------------------------------------------------------------------
(* Category multi-select (the page with selectedCategories)                *)

\* allCategories: the trimmed categories of trends, sorted.
allCategories == categoriesOf(trends)

\* The condition of the "Initialize selection" effect.  The effect runs
\* after every render that changed allCategories or selectedCategories.length,
\* and only such a render can make the condition true, so the effect is due
\* exactly when the condition holds.
selectionEffectDue == Len(allCategories) # 0 /\ Len(selectedCategories) = 0

\* useEffect(..., [allCategories, selectedCategories.length])
InitializeSelectionEffect ==
    /\ selectionEffectDue
    /\ selectedCategories' = allCategories
    /\ UNCHANGED <<envVars, serverData, loadVars, filterVars, sourceGroupOpen,
                   exportVars, now, authVars>>

\* The updater of toggleCategory.
toggleCategory(prev, cat) ==
    LET set     == Distinct(prev)
        toggled == IF cat \in Elems(set)
                   THEN SelectSeq(set, LAMBDA c : c # cat)
                   ELSE Append(set, cat)
    IN  SortedBy(toggled, [a \in Elems(toggled), b \in Elems(toggled) |->
                              localeCompare(a, b)])

\* onChange of a category checkbox.
ToggleCategory(cat) ==
    /\ ~selectionEffectDue
    /\ selectedCategories' = toggleCategory(selectedCategories, cat)
    /\ UNCHANGED <<envVars, serverData, loadVars, filterVars, sourceGroupOpen,
                   exportVars, now, authVars>>

SelectAllCategories ==
    /\ ~selectionEffectDue
    /\ selectedCategories' = allCategories
    /\ UNCHANGED <<envVars, serverData, loadVars, filterVars, sourceGroupOpen,
                   exportVars, now, authVars>>

ClearCategories ==
    /\ ~selectionEffectDue
    /\ selectedCategories' = <<>>
    /\ UNCHANGED <<envVars, serverData, loadVars, filterVars, sourceGroupOpen,
                   exportVars, now, authVars>>

-----------------------------------------------------------------------------
(* Specifications                                                          *)

\* The empty record {}.
NoEntries == [key \in {} |-> FALSE]

\* The initial values of the export controls.
InitExport ==
    /\ exportScope = "all"
    /\ exportMonth = "all"
    /\ exportWeek = "all"
    /\ exporting = FALSE
    /\ exports = <<>>

\* The first render of a page opened on 10 February 2026 at noon UTC.
PageOpened == DaysFromCivil(2026, 2, 10) * HoursPerDay + 12

\* A deployment with the site protection configured and a browser that has
\* not sent a request yet.
InitAuth ==
    /\ authEnv = ConfiguredEnv
    /\ siteAuth = Null
    /\ lastRequest = Null
    /\ lastResponse = Null

InitOther ==
    InitExport /\ now = PageOpened /\ InitAuth /\ selectedCategories = <<>>

InitPage ==
    /\ mounted = FALSE
    /\ loads = <<>>
    /\ trends = <<>>
    /\ loading = TRUE
    /\ refreshing = FALSE
    /\ error = Null
    /\ groupBy = "week"
    /\ selectedSlot = "all"
    /\ selectedCategory = "all"
    /\ minScore = 50
    /\ searchQuery = ""
    /\ slotResetPending = FALSE
    /\ sourceGroupOpen = NoEntries
    /\ InitOther

\* One page load over every row list the normalizer is checked on.
InitNorm ==
    /\ tzOffset \in TZOffsets
    /\ config = "ok"
    /\ serverData \in ListsOver(NormRows, MaxNormLen)
    /\ InitPage

NextNorm ==
    \/ Mount
    \/ \E i \in 1..MaxLoads, ok \in BOOLEAN : FetchRespond(i, ok)
    \/ \E i \in 1..MaxLoads : CompleteLoad(i)

SpecNorm == InitNorm /\ [][NextNorm]_vars

\* Overlapping loads against a backend whose rows change.
LoadDataSets ==
    ListsOver({[EmptyRow EXCEPT !.topic = Some("a"), !.relevance_score = Some(90)]}, 1)
    \cup ListsOver({[EmptyRow EXCEPT !.topic = Some("b"), !.week_number = Some(5)]}, 1)

InitLoad ==
    /\ tzOffset \in TZOffsets
    /\ config \in {"ok", "noenv", "noclient"}
    /\ serverData \in LoadDataSets
    /\ InitPage

NextLoad ==
    \/ Mount
    \/ BackgroundLoad
    \/ \E data \in LoadDataSets : ServerChange(data)
    \/ \E i \in 1..MaxLoads, ok \in BOOLEAN : FetchRespond(i, ok)
    \/ \E i \in 1..MaxLoads : CompleteLoad(i)

SpecLoad == InitLoad /\ [][NextLoad]_vars

\* The page after its first load has delivered the rows, under every
\* setting of the filter controls.
InitFilter ==
    /\ tzOffset \in FilterTZOffsets
    /\ config = "ok"
    /\ serverData \in ListsOver(FilterRows, MaxFilterLen)
    /\ mounted = TRUE
    /\ loads = <<[background |-> FALSE, phase |-> "done",
                  resp |-> Some([ok |-> TRUE, data |-> serverData])]>>
    /\ trends = serverData
    /\ loading = FALSE
    /\ refreshing = FALSE
    /\ error = Null
    /\ groupBy = "week"
    /\ selectedSlot = "all"
    /\ selectedCategory = "all"
    /\ minScore = 50
    /\ searchQuery = ""
    /\ slotResetPending = FALSE
    /\ sourceGroupOpen = NoEntries
    /\ InitOther

NextFilter ==
    \/ \E g \in {"week", "day", "month"} : SetGroupBy(g)
    \/ ResetSlotEffect
    \/ \E key \in slotChoices : SetSelectedSlot(key)
    \/ \E c \in categoryChoices : SetSelectedCategory(c)
    \/ \E m \in MinScoreInputs : SetMinScore(m)
    \/ \E q \in SearchInputs : SetSearchQuery(q)

SpecFilter == InitFilter /\ [][NextFilter]_vars

\* The loaded page under every grouping mode, with the score floor on and off.
InitGroup ==
    /\ tzOffset \in FilterTZOffsets
    /\ config = "ok"
    /\ serverData \in ListsOver(GroupRows, MaxGroupLen)
    /\ mounted = TRUE
    /\ loads = <<[background |-> FALSE, phase |-> "done",
                  resp |-> Some([ok |-> TRUE, data |-> serverData])]>>
    /\ trends = serverData
    /\ loading = FALSE
    /\ refreshing = FALSE
    /\ error = Null
    /\ groupBy = "week"
    /\ selectedSlot = "all"
    /\ selectedCategory = "all"
    /\ minScore = 50
    /\ searchQuery = ""
    /\ slotResetPending = FALSE
    /\ sourceGroupOpen = NoEntries
    /\ InitOther

NextGroup ==
    \/ \E g \in {"week", "day", "month"} : SetGroupBy(g)
    \/ ResetSlotEffect
    \/ \E m \in MinScoreInputs : SetMinScore(m)

SpecGroup == InitGroup /\ [][NextGroup]_vars

\* The loaded page over the KPI row lists, with the score floor on and off
\* and every offered category selected.
InitKpi ==
    /\ tzOffset = 0
    /\ config = "ok"
    /\ serverData \in KpiLists
    /\ mounted = TRUE
    /\ loads = <<[background |-> FALSE, phase |-> "done",
                  resp |-> Some([ok |-> TRUE, data |-> serverData])]>>
    /\ trends = serverData
    /\ loading = FALSE
    /\ refreshing = FALSE
    /\ error = Null
    /\ groupBy = "week"
    /\ selectedSlot = "all"
    /\ selectedCategory = "all"
    /\ minScore = 50
    /\ searchQuery = ""
    /\ slotResetPending = FALSE
    /\ sourceGroupOpen = NoEntries
    /\ InitOther

NextKpi ==
    \/ \E c \in categoryChoices : SetSelectedCategory(c)
    \/ \E m \in MinScoreInputs : SetMinScore(m)

SpecKpi == InitKpi /\ [][NextKpi]_vars

\* The loaded page in the source-grouped layout, with the score floor on and
\* off and every source group toggled any number of times.
InitSource ==
    /\ tzOffset = 0
    /\ config = "ok"
    /\ serverData \in SourceLists
    /\ mounted = TRUE
    /\ loads = <<[background |-> FALSE, phase |-> "done",
                  resp |-> Some([ok |-> TRUE, data |-> serverData])]>>
    /\ trends = serverData
    /\ loading = FALSE
    /\ refreshing = FALSE
    /\ error = Null
    /\ groupBy = "week"
    /\ selectedSlot = "all"
    /\ selectedCategory = "all"
    /\ minScore = 50
    /\ searchQuery = ""
    /\ slotResetPending = FALSE
    /\ sourceGroupOpen = NoEntries
    /\ InitOther

NextSource ==
    \/ \E c \in Elems(sourceGroups) : ToggleSourceGroup(c.groupKey, c.defaultOpen)
    \/ \E m \in MinScoreInputs : SetMinScore(m)

SpecSource == InitSource /\ [][NextSource]_vars

\* The loaded page with every setting of the export controls, the score
\* floor on and off and every category selected.
InitExportPage ==
    /\ tzOffset \in FilterTZOffsets
    /\ config = "ok"
    /\ serverData \in SubLists(ExportBase)
    /\ mounted = TRUE
    /\ loads = <<[background |-> FALSE, phase |-> "done",
                  resp |-> Some([ok |-> TRUE, data |-> serverData])]>>
    /\ trends = serverData
    /\ loading = FALSE
    /\ refreshing = FALSE
    /\ error = Null
    /\ groupBy = "week"
    /\ selectedSlot = "all"
    /\ selectedCategory = "all"
    /\ minScore = 50
    /\ searchQuery = ""
    /\ slotResetPending = FALSE
    /\ sourceGroupOpen = NoEntries
    /\ InitOther

NextExport ==
    \/ \E scope \in ExportScopes : SetExportScope(scope)
    \/ \E month \in exportMonthChoices : SetExportMonth(month)
    \/ \E week \in exportWeekChoices : SetExportWeek(week)
    \/ \E m \in MinScoreInputs : SetMinScore(m)
    \/ \E c \in categoryChoices : SetSelectedCategory(c)

SpecExport == InitExportPage /\ [][NextExport]_vars

\* The page opened at any of the instants OpenedAt in any of the viewer
\* zones, and its first load.
InitWeek ==
    /\ tzOffset \in TZOffsets
    /\ config = "ok"
    /\ serverData = <<>>
    /\ mounted = FALSE
    /\ loads = <<>>
    /\ trends = <<>>
    /\ loading = TRUE
    /\ refreshing = FALSE
    /\ error = Null
    /\ groupBy = "week"
    /\ selectedSlot = "all"
    /\ selectedCategory = "all"
    /\ minScore = 50
    /\ searchQuery = ""
    /\ slotResetPending = FALSE
    /\ sourceGroupOpen = NoEntries
    /\ InitExport
    /\ InitAuth
    /\ selectedCategories = <<>>
    /\ now \in OpenedAt

NextWeek ==
    \/ Mount
    \/ \E ok \in BOOLEAN : FetchRespond(1, ok)
    \/ CompleteLoad(1)

SpecWeek == InitWeek /\ [][NextWeek]_vars

\* What the backend holds while the bucket selection is exercised: rows of
\* two weeks, days and months that come and go.
SlotRows ==
    { [EmptyRow EXCEPT !.topic = Some("a"), !.relevance_score = Some(90),
                       !.published_date = Some("2026-02-10"),
                       !.week_number = Some(7)],
      [EmptyRow EXCEPT !.topic = Some("b"), !.relevance_score = Some(60),
                       !.published_date = Some("2026-03-01")] }

SlotDataSets == ListsOver(SlotRows, 1)

\* The loaded page with the grouping buttons and the bucket dropdown in
\* use while the data changes and background refreshes run.
InitSlot ==
    /\ tzOffset = 0
    /\ config = "ok"
    /\ serverData \in SlotDataSets
    /\ mounted = TRUE
    /\ loads = <<[background |-> FALSE, phase |-> "done",
                  resp |-> Some([ok |-> TRUE, data |-> serverData])]>>
    /\ trends = serverData
    /\ loading = FALSE
    /\ refreshing = FALSE
    /\ error = Null
    /\ groupBy = "week"
    /\ selectedSlot = "all"
    /\ selectedCategory = "all"
    /\ minScore = 50
    /\ searchQuery = ""
    /\ slotResetPending = FALSE
    /\ sourceGroupOpen = NoEntries
    /\ InitOther

NextSlot ==
    \/ \E g \in {"week", "day", "month"} : SetGroupBy(g)
    \/ ResetSlotEffect
    \/ \E key \in slotChoices : SetSelectedSlot(key)
    \/ \E data \in SlotDataSets : ServerChange(data)
    \/ BackgroundLoad
    \/ \E i \in 1..MaxLoads, ok \in BOOLEAN : FetchRespond(i, ok)
    \/ \E i \in 1..MaxLoads : CompleteLoad(i)

SpecSlot == InitSlot /\ [][NextSlot]_vars

\* Any deployment, and a client sending any sequence of requests.
InitSite ==
    /\ tzOffset = 0
    /\ config = "ok"
    /\ serverData = <<>>
    /\ mounted = FALSE
    /\ loads = <<>>
    /\ trends = <<>>
    /\ loading = TRUE
    /\ refreshing = FALSE
    /\ error = Null
    /\ groupBy = "week"
    /\ selectedSlot = "all"
    /\ selectedCategory = "all"
    /\ minScore = 50
    /\ searchQuery = ""
    /\ slotResetPending = FALSE
    /\ sourceGroupOpen = NoEntries
    /\ InitExport
    /\ now = PageOpened
    /\ authEnv \in AuthEnvs
    /\ siteAuth = Null
    /\ lastRequest = Null
    /\ lastResponse = Null
    /\ selectedCategories = <<>>

NextSite ==
    \/ \E pathname \in AuthPaths, cookie \in ForgedCookies \cup {siteAuth} :
          Request(pathname, cookie)
    \/ \E body \in LoginBodies, cookie \in ForgedCookies \cup {siteAuth} :
          Login(body, cookie)
    \/ CookieExpires

SpecSite == InitSite /\ [][NextSite]_vars

\* The loaded page with the export button and the export selects in use
\* while exports start, fail and finish.
ExportingDataSets == {SubSeq(ExportBase, 1, n) : n \in 0..2}

InitExporting ==
    /\ tzOffset = 0
    /\ config = "ok"
    /\ serverData \in {[i \in 1..Len(rows) |-> WithId(rows[i], i)] : rows \in ExportingDataSets}
    /\ mounted = TRUE
    /\ loads = <<[background |-> FALSE, phase |-> "done",
                  resp |-> Some([ok |-> TRUE, data |-> serverData])]>>
    /\ trends = serverData
    /\ loading = FALSE
    /\ refreshing = FALSE
    /\ error = Null
    /\ groupBy = "week"
    /\ selectedSlot = "all"
    /\ selectedCategory = "all"
    /\ minScore = 50
    /\ searchQuery = ""
    /\ slotResetPending = FALSE
    /\ sourceGroupOpen = NoEntries
    /\ InitOther

NextExporting ==
    \/ HandleExcelExport
    \/ \E i \in 1..MaxExports, ok \in BOOLEAN : ExportImported(i, ok)
    \/ \E i \in 1..MaxExports, ok \in BOOLEAN : ExportWritten(i, ok)
    \/ \E scope \in ExportScopes : SetExportScope(scope)
    \/ \E week \in exportWeekChoices : SetExportWeek(week)

SpecExporting == InitExporting /\ [][NextExporting]_vars

\* Rows for the category multi-select: three categories, one of them
\* padded, and a row without a category.
MultiRows ==
    { [EmptyRow EXCEPT !.topic = Some("a"), !.category = Some(" Audio ")],
      [EmptyRow EXCEPT !.topic = Some("b"), !.category = Some("Brand")],
      [EmptyRow EXCEPT !.topic = Some("c"), !.category = Some("Charts")],
      [EmptyRow EXCEPT !.topic = Some("d")] }

MaxMultiLen == 2     \* longest row list loaded by the multi-select page

\* The multi-select page from its first render on: the load, the effect
\* and the category controls.
InitMulti ==
    /\ tzOffset = 0
    /\ config = "ok"
    /\ serverData \in ListsOver(MultiRows, MaxMultiLen)
    /\ InitPage

NextMulti ==
    \/ Mount
    \/ \E ok \in BOOLEAN : FetchRespond(1, ok)
    \/ CompleteLoad(1)
    \/ InitializeSelectionEffect
    \/ \E cat \in Elems(allCategories) : ToggleCategory(cat)
    \/ SelectAllCategories
    \/ ClearCategories

SpecMulti == InitMulti /\ [][NextMulti]_vars

-----------------------------------------------------------------------------
(* Load properties                                                         *)

\* C1: once no load is in flight, the trends snapshot is the result of the
\* most recently started load (an earlier load that completes later does not
\* overwrite it).
C1_LatestStartedLoadWins ==
    (Len(loads) > 0 /\ InFlight = {})
        => trends = loads[Len(loads)].resp[1].data

-----------------------------------------------------------------------------
(* Normalizer properties                                                   *)

Ids(list) == {list[i].id : i \in 1..Len(list)}

FirstLoadDone == Len(loads) >= 1 /\ loads[1].phase = "done" /\ loads[1].resp[1].ok

IsBlank(field) == field = Null \/ trim(field[1]) = ""

\* week_number as section 4.2 derives it.
DerivedWeekOf(t, tz) ==
    IF t.week_number = Null /\ safeDate(t.published_date) # Null
    THEN Some(getISOWeek(safeDate(t.published_date)[1], tz))
    ELSE t.week_number

RawOf(n) == CHOOSE i \in 1..Len(trends) : trends[i].id = n.id

\* C2: normalization is idempotent: normalizing the normalized list again
\* yields exactly the same list.
C2_NormalizeIdempotent ==
    normalizedTrendsOf(normalizedTrends, tzOffset) = normalizedTrends

\* A loaded list from which one record was dropped and in which a kept
\* record got its week derived from its date.
C2_Witness ==
    /\ FirstLoadDone
    /\ Len(normalizedTrends) = 1 /\ Len(trends) = 2
    /\ RawOf(normalizedTrends[1]) \in 1..2
    /\ trends[RawOf(normalizedTrends[1])].week_number = Null
    /\ normalizedTrends[1].week_number # Null
    /\ tzOffset < 0

\* C3: a record is dropped iff topic, summary, spotify_impact, url, category
\* and published_date are all blank or absent, relevance_score is absent and
\* the derived week_number is not a positive integer.
C3_DropIffNoContent ==
    \A kept \in {Ids(normalizedTrends)} : \A i \in 1..Len(trends) :
        LET t == trends[i]
            dropped == t.id \notin kept
            w == DerivedWeekOf(t, tzOffset)
        IN  dropped <=>
              /\ IsBlank(t.topic) /\ IsBlank(t.summary)
              /\ IsBlank(t.spotify_impact) /\ IsBlank(t.url)
              /\ IsBlank(t.category) /\ IsBlank(t.published_date)
              /\ t.relevance_score = Null
              /\ (w = Null \/ w[1] <= 0)

\* A record whose only content is week_number 0 is dropped next to a record
\* that is kept for a whitespace-padded text field alone.
C3_Witness ==
    /\ FirstLoadDone
    /\ Len(trends) = 2 /\ Len(normalizedTrends) = 1
    /\ \E i \in 1..2 : /\ trends[i].week_number = Some(0)
                       /\ trends[i].published_date = Null
                       /\ normalizedTrends[1].id # trends[i].id
    /\ \E f \in TextFields : normalizedTrends[1][f] = Some(" x ")

\* isoWeek of section 4.1: move to the Thursday of the week and count the
\* weeks of that Thursday's year, all in UTC calendar days.
isoWeekUTC(date) ==
    LET day      == date \div HoursPerDay
        weekday  == IF (day + 4) % 7 = 0 THEN 7 ELSE (day + 4) % 7
        thursday == day + 4 - weekday
        jan1     == DaysFromCivil(CivilFromDays(thursday).y, 1, 1)
    IN  (thursday - jan1 + 1 + 6) \div 7

\* C4: the normalized week_number is isoWeek(published_date) when the raw
\* week_number is absent and the date parses, and the raw week_number in
\* every other case; "2026-02-10" without a week gives week 7.
C4_WeekIsIsoWeekOfDate ==
    \A j \in 1..Len(normalizedTrends) :
        LET n == normalizedTrends[j]
            t == trends[RawOf(n)]
            d == safeDate(t.published_date)
        IN  /\ (t.week_number = Null /\ d # Null)
                  => n.week_number = Some(isoWeekUTC(d[1]))
            /\ ~(t.week_number = Null /\ d # Null)
                  => n.week_number = t.week_number
            /\ (t.week_number = Null /\ t.published_date = Some("2026-02-10"))
                  => n.week_number = Some(7)

SameButWeek(a, b) ==
    [a EXCEPT !.week_number = Null] = [b EXCEPT !.week_number = Null]

\* out is in, with some records left out and nothing but week_number changed.
RECURSIVE IsSubseqButWeek(_, _)
IsSubseqButWeek(out, in) ==
    IF Len(out) = 0 THEN TRUE
    ELSE IF Len(in) = 0 THEN FALSE
    ELSE IF SameButWeek(out[1], in[1])
         THEN IsSubseqButWeek(Tail(out), Tail(in))
         ELSE IsSubseqButWeek(out, Tail(in))

\* C5: the normalizer's output is an order-preserving subsequence of its
\* input in which every field but week_number is the input's field, and the
\* input list is what the load delivered.
C5_NormalizeFrame ==
    /\ IsSubseqButWeek(normalizedTrends, trends)
    /\ FirstLoadDone => trends = loads[1].resp[1].data

\* Two kept records around a padded text field, one with a derived week.
C5_Witness ==
    /\ FirstLoadDone
    /\ Len(trends) = 2 /\ Len(normalizedTrends) = 2
    /\ normalizedTrends[1].topic = Some(" x ")
    /\ trends[2].week_number = Null /\ normalizedTrends[2].week_number # Null

-----------------------------------------------------------------------------
(* Filter properties                                                       *)

\* clamp(minScore, 0, 1) of section 4.3, in hundredths.
ClampUnit(m) == IF m < 0 THEN 0 ELSE IF m > 100 THEN 100 ELSE m

ScoreFloorOK(t, m) == Coalesce(t.relevance_score, 0) >= ClampUnit(m)

CategoryOK(t) ==
    selectedCategory = "all" \/ trim(Coalesce(t.category, "")) = selectedCategory

SlotOK(t) ==
    selectedSlot = "all" \/ slotKeyForTrend(t, groupBy, tzOffset) = selectedSlot

SearchOK(t) ==
    LET q == trim(toLowerCase(searchQuery))
    IN  \/ q = ""
        \/ includes(toLowerCase(Coalesce(t.topic, "")), q)
        \/ includes(toLowerCase(Coalesce(t.summary, "")), q)
        \/ includes(toLowerCase(Coalesce(t.category, "")), q)

\* C6: the filtered list is exactly the order-preserving subsequence of the
\* normalized list whose records satisfy all active predicates together; no
\* record is added, duplicated or altered.
C6_FilteredIsConjunction ==
    \A result \in {filtered} :
        /\ result = SelectSeq(normalizedTrends,
                        LAMBDA t : /\ ScoreFloorOK(t, minScore) /\ CategoryOK(t)
                                   /\ SlotOK(t) /\ SearchOK(t))
        /\ Cardinality(Ids(result)) = Len(result)

\* All four filters are active and let one of two records through.
C6_Witness ==
    /\ minScore > 0 /\ selectedCategory # "all" /\ selectedSlot # "all"
    /\ trim(searchQuery) # ""
    /\ Len(normalizedTrends) = 2 /\ Len(filtered) = 1
    /\ filtered[1] = normalizedTrends[2]

ScoreProbes == {-50, 0, 50, 150}

FilteredIdsOf(list, m) ==
    Ids(filteredOf(list, m, selectedCategory, selectedSlot, groupBy,
                   searchQuery, tzOffset))

FilteredIdsAt(m) == FilteredIdsOf(normalizedTrends, m)

\* C7: raising minScore never adds a record: for m1 <= m2, values outside
\* [0,1] included, the result for m2 is a subset of the result for m1.
C7_MinScoreMonotone ==
    \A list \in {normalizedTrends} :
    \A at \in {[m \in ScoreProbes |-> FilteredIdsOf(list, m)]} :
        \A m1, m2 \in ScoreProbes : m1 <= m2 => at[m2] \subseteq at[m1]

\* Two records pass at 0, one of them is lost at 0.5 and the other stays
\* up to the clamped 1.5.
C7_Witness ==
    /\ Cardinality(FilteredIdsAt(0)) = 2
    /\ Cardinality(FilteredIdsAt(50)) = 1
    /\ FilteredIdsAt(150) = FilteredIdsAt(50)
    /\ minScore = 50

FloorOnly(list, m) == filteredOf(list, m, "all", "all", "week", "", tzOffset)

ScenarioA ==
    <<WithId([EmptyRow EXCEPT !.relevance_score = Some(90),
                              !.category = Some("Spotify")], 1),
      WithId([EmptyRow EXCEPT !.relevance_score = Some(50),
                              !.category = Some("Marketing")], 2),
      WithId(EmptyRow, 3)>>

\* Scenario A at minScore 0.6, the other filters neutral.
ScenarioAFloor ==
    [tz \in FilterTZOffsets |->
        Ids(filteredOf(normalizedTrendsOf(ScenarioA, tz), 60, "all", "all",
                       "week", "", tz))]

\* C8: the score floor keeps a record iff (relevance_score ?? 0) >= minScore
\* clamped to [0,1]; with minScore > 0 no record without a score is kept,
\* with minScore = 0 every record without a score or with a score in [0,1]
\* is kept; scenario A leaves exactly the 0.9 record.
C8_ScoreFloor ==
    /\ \A list \in {normalizedTrends} :
          /\ \A m \in ScoreProbes \cup {minScore} :
                FloorOnly(list, m) = SelectSeq(list, LAMBDA t : ScoreFloorOK(t, m))
          /\ \A kept \in {Ids(FloorOnly(list, 0))} :
                \A i \in 1..Len(list) :
                   LET sc == list[i].relevance_score
                   IN  (sc = Null \/ sc[1] \in 0..100) => list[i].id \in kept
    /\ \A result \in {filtered} :
          /\ \A i \in 1..Len(result) : ScoreFloorOK(result[i], minScore)
          /\ minScore > 0 =>
                \A i \in 1..Len(result) : result[i].relevance_score # Null
    /\ ScenarioAFloor[tzOffset] = {1}

\* At minScore 0.5 a record scored exactly 0.5 is kept and a record without
\* a score is not.
C8_Witness ==
    /\ minScore = 50 /\ selectedCategory = "all" /\ selectedSlot = "all"
    /\ searchQuery = ""
    /\ Len(normalizedTrends) = 2 /\ Len(filtered) = 1
    /\ filtered[1].relevance_score = Some(50)
    /\ \E i \in 1..2 : normalizedTrends[i].relevance_score = Null

AnyCategory ==
    filteredOf(normalizedTrends, minScore, "all", selectedSlot, groupBy,
               searchQuery, tzOffset)

BlankCategory(t) ==
    t.category = Null \/ t.category[1] = "" \/ trim(t.category[1]) = ""

\* C9: with a specific category selected a record passes the category filter
\* iff its trimmed category equals the selection; records whose category is
\* null, empty or white space are all excluded by it, and all counted under
\* "Unkategorisiert" in the category counts.
C9_CategoryFilter ==
    \A any \in {AnyCategory} :
    /\ selectedCategory # "all" =>
          \A result \in {filtered} :
             /\ result = SelectSeq(any,
                   LAMBDA t : trim(Coalesce(t.category, "")) = selectedCategory)
             /\ \A i \in 1..Len(result) : ~BlankCategory(result[i])
    /\ \A counts \in {categoryCountOf(any)} :
          LET blanks == {i \in 1..Len(any) : BlankCategory(any[i])}
          IN  /\ \A k \in 1..Len(counts) :
                    /\ trim(counts[k].name) # ""
                    /\ counts[k].name = Uncategorized
                          => counts[k].value = Cardinality(blanks)
              /\ blanks # {} =>
                    \E k \in 1..Len(counts) : counts[k].name = Uncategorized

\* "Spotify" is selected: the record with the padded category " Spotify "
\* passes, a record with a blank category does not.
C9_Witness ==
    /\ selectedCategory = "Spotify"
    /\ Len(filtered) = 1 /\ filtered[1].category = Some(" Spotify ")
    /\ Len(AnyCategory) = 2
    /\ \E i \in 1..2 : BlankCategory(AnyCategory[i])

AnySlot ==
    filteredOf(normalizedTrends, minScore, selectedCategory, "all", groupBy,
               searchQuery, tzOffset)

\* C10: with a specific bucket selected a record passes the time-bucket
\* filter iff its bucket key under the active grouping mode equals the
\* selected key; the grouped output then has at most one bucket, labelled
\* with the label of the selected key.
C10_SlotFilter ==
    selectedSlot # "all" =>
        \A result \in {filtered} : \A groups \in {groupedOf(result, groupBy, tzOffset)} :
        /\ result = SelectSeq(AnySlot,
              LAMBDA t : slotKeyForTrend(t, groupBy, tzOffset) = selectedSlot)
        /\ Len(groups) <= 1
        /\ Len(groups) = 1 =>
              /\ groups[1].label = slotLabelFromKey(selectedSlot, groupBy, tzOffset)
              /\ groups[1].items = result

\* The unknown day bucket is selected: the undated record is the one bucket,
\* the dated record is filtered out.
C10_Witness ==
    /\ groupBy = "day" /\ selectedSlot = "day:unknown"
    /\ Len(AnySlot) = 2 /\ Len(filtered) = 1
    /\ Len(grouped) = 1 /\ grouped[1].label = "Ohne Datum"

-----------------------------------------------------------------------------
(* Grouping properties                                                     *)

PositiveWeek(t) == t.week_number # Null /\ t.week_number[1] > 0

\* The label of the bucket of grouped that holds the record with this id.
BucketLabelOf(groups, id) ==
    {groups[k].label : k \in {j \in 1..Len(groups) : id \in Ids(groups[j].items)}}

\* C11: in week mode a record's bucket key is week:<week_number> only when
\* week_number is present and positive; a record whose week_number is absent,
\* zero or negative has the key week:unknown and is in the "Ohne KW" bucket.
C11_WeekKeyPositiveOnly ==
    groupBy = "week" =>
        \A list \in {filtered} : \A groups \in {groupedOf(list, groupBy, tzOffset)} :
        \A i \in 1..Len(list) :
            LET t == list[i]
            IN  IF PositiveWeek(t)
                THEN /\ slotKeyForTrend(t, groupBy, tzOffset)
                          = "week:" \o NumToString(t.week_number[1])
                     /\ BucketLabelOf(groups, t.id)
                          = {"KW " \o NumToString(t.week_number[1])}
                ELSE /\ slotKeyForTrend(t, groupBy, tzOffset) = "week:unknown"
                     /\ BucketLabelOf(groups, t.id) = {"Ohne KW"}

\* The label grouped gives a record under the active grouping mode.
LabelOfTrend(t) ==
    slotLabelFromKey(slotKeyForTrend(t, groupBy, tzOffset), groupBy, tzOffset)

\* C12: grouping partitions the filtered list: every filtered record is in
\* exactly one bucket, no bucket is empty, and the items of a bucket are the
\* filtered records with the bucket's label, in their filtered order.
C12_GroupingPartitions ==
    \A list \in {filtered} : \A groups \in {groupedOf(list, groupBy, tzOffset)} :
        /\ \A i \in 1..Len(list) :
              Cardinality({k \in 1..Len(groups) :
                             \E j \in 1..Len(groups[k].items) :
                                 groups[k].items[j] = list[i]}) = 1
        /\ \A k \in 1..Len(groups) :
              /\ Len(groups[k].items) > 0
              /\ groups[k].items
                   = SelectSeq(list, LAMBDA t : LabelOfTrend(t) = groups[k].label)
              /\ \A k2 \in 1..Len(groups) :
                    k2 # k => groups[k2].label # groups[k].label

\* Two week-5 records with a week-less record between them: two buckets, the
\* week-5 bucket holding the first and the third record in that order.
C12_Witness ==
    /\ groupBy = "week" /\ minScore = 0
    /\ Len(filtered) = 3 /\ Len(grouped) = 2
    /\ grouped[1].label = "KW 5"
    /\ Len(grouped[1].items) = 2
    /\ grouped[1].items[1].id = 1 /\ grouped[1].items[2].id = 3
    /\ grouped[2].label = "Ohne KW" /\ grouped[2].items[1].id = 2

UnknownLabels == {"Ohne KW", "Ohne Datum", "Ohne Monat"}

\* The week number shared by the records of a known week bucket.
WeekOfBucket(b) == b.items[1].week_number[1]

\* C13: the unknown bucket, when present, is the last bucket of grouped, and
\* in week mode the known buckets are in strictly descending order of their
\* week number.
C13_UnknownLastWeeksDescending ==
    \A groups \in {grouped} :
        /\ \A k \in 1..Len(groups) :
              groups[k].label \in UnknownLabels => k = Len(groups)
        /\ groupBy = "week" =>
              \A k \in 1..Len(groups), k2 \in 1..Len(groups) :
                  (/\ k < k2
                   /\ groups[k].label \notin UnknownLabels
                   /\ groups[k2].label \notin UnknownLabels)
                  => WeekOfBucket(groups[k]) > WeekOfBucket(groups[k2])

\* The rank of a dated record's canonical key: its local calendar day
\* (YYYY-MM-DD) or month (YYYY-MM) counted in days resp. months, which
\* orders like the zero-padded key.
KeyRank(t) ==
    LET c == LocalCivil(safeDate(t.published_date)[1], tzOffset)
    IN  IF groupBy = "day" THEN DaysFromCivil(c.y, c.m, c.d) ELSE c.y * 12 + c.m

Labels(list) == [i \in 1..Len(list) |-> list[i].label]

\* C14: in day and month mode the known buckets of grouped are in descending
\* order of their canonical key, that is newest first, and so in the order
\* of the options of the slot selector.
C14_DayMonthKeyDescending ==
    groupBy \in {"day", "month"} =>
        \A list \in {filtered} : \A groups \in {groupedOf(list, groupBy, tzOffset)} :
            /\ \A k \in 1..Len(groups), k2 \in 1..Len(groups) :
                  (/\ k < k2
                   /\ groups[k].label \notin UnknownLabels
                   /\ groups[k2].label \notin UnknownLabels)
                  => KeyRank(groups[k].items[1]) > KeyRank(groups[k2].items[1])
            /\ Labels(groups) = Labels(slotOptionsOf(list, groupBy, tzOffset))

\* C16: an empty filtered set is not an error: count is 0, avgScore is null,
\* topCategory is the dash placeholder, the category histogram and the bucket
\* list are empty; in general avgScore is null exactly when no filtered
\* record has a score.
C16_EmptyResultAggregates ==
    \A list \in {filtered} :
    \A k \in {kpisOf(list)} : \A groups \in {groupedOf(list, groupBy, tzOffset)} :
        /\ Len(list) = 0 =>
              /\ error = Null
              /\ k.count = 0
              /\ k.avgScore = Null
              /\ k.topCategory = EmDash
              /\ k.bars = <<>>
              /\ groups = <<>>
        /\ Len(list) > 0 =>
              /\ k.count > 0
              /\ k.topCategory # EmDash
              /\ k.bars # <<>>
              /\ groups # <<>>
        /\ k.avgScore = Null <=>
              \A i \in 1..Len(list) : list[i].relevance_score = Null

\* The score floor removes both loaded records: the aggregates are the empty
\* ones although the page holds data.
C16_Witness ==
    /\ Len(normalizedTrends) = 2 /\ minScore = 50
    /\ filtered = <<>>
    /\ kpis.count = 0 /\ kpis.avgScore = Null /\ kpis.topCategory = EmDash
    /\ grouped = <<>>

-----------------------------------------------------------------------------
(* KPI properties                                                          *)

\* C15: the score bands partition the filtered set: a record is in High from
\* 0.8, in Mid from 0.6 to below 0.8, in Low below 0.6 and when it has no
\* score, in exactly one of them; high + mid + low is the filtered count and
\* High is highPriority.
C15_BandsPartition ==
    \A list \in {filtered} : \A k \in {kpisOf(list)} :
        LET high == {i \in 1..Len(list) : /\ list[i].relevance_score # Null
                                          /\ list[i].relevance_score[1] >= 80}
            mid  == {i \in 1..Len(list) : /\ list[i].relevance_score # Null
                                          /\ list[i].relevance_score[1] >= 60
                                          /\ list[i].relevance_score[1] < 80}
            low  == {i \in 1..Len(list) : \/ list[i].relevance_score = Null
                                          \/ list[i].relevance_score[1] < 60}
        IN  /\ k.distHigh = Cardinality(high)
            /\ k.distMid = Cardinality(mid)
            /\ k.distLow = Cardinality(low)
            /\ high \cap mid = {} /\ high \cap low = {} /\ mid \cap low = {}
            /\ high \cup mid \cup low = 1..Len(list)
            /\ k.distHigh + k.distMid + k.distLow = k.count
            /\ k.count = Len(list)
            /\ k.distHigh = k.highPriority

\* All three bands are occupied, the score-less record and both band edges
\* (0.8 and 0.6) among the filtered records.
C15_Witness ==
    /\ minScore = 0
    /\ kpis.distHigh >= 1 /\ kpis.distMid >= 2 /\ kpis.distLow >= 2
    /\ \E i \in 1..Len(filtered) : filtered[i].relevance_score = Null
    /\ \E i \in 1..Len(filtered) : filtered[i].relevance_score = Some(80)
    /\ \E i \in 1..Len(filtered) : filtered[i].relevance_score = Some(79)
    /\ \E i \in 1..Len(filtered) : filtered[i].relevance_score = Some(60)
    /\ \E i \in 1..Len(filtered) : filtered[i].relevance_score = Some(59)

\* Name n goes ahead of name m: more records, or as many and met earlier.
Ahead(list, n, m) ==
    LET cnt(x)   == Cardinality({i \in 1..Len(list) : categoryLabel(list[i]) = x})
        first(x) == CHOOSE i \in 1..Len(list) :
                        /\ categoryLabel(list[i]) = x
                        /\ \A j \in 1..(i - 1) : categoryLabel(list[j]) # x
    IN  \/ cnt(n) > cnt(m)
        \/ cnt(n) = cnt(m) /\ first(n) < first(m)

\* C17: topCategory is a category with the most filtered records (blank
\* categories counted as "Unkategorisiert"), the first met in filtered order
\* among those with as many; the histogram has at most 6 categories in
\* non-increasing count order with the same tie-break, headed by topCategory.
C17_TopCategoryAndBars ==
    \A list \in {filtered} : \A k \in {kpisOf(list)} :
        LET names    == {categoryLabel(list[i]) : i \in 1..Len(list)}
            barNames == {k.bars[j].name : j \in 1..Len(k.bars)}
        IN  /\ Len(list) > 0 =>
                  /\ k.topCategory \in names
                  /\ \A n \in names \ {k.topCategory} : Ahead(list, k.topCategory, n)
                  /\ k.bars[1].name = k.topCategory
            /\ Len(k.bars) = Min(6, Cardinality(names))
            /\ barNames \subseteq names
            /\ \A j \in 1..Len(k.bars) :
                  /\ k.bars[j].value
                       = Cardinality({i \in 1..Len(list) :
                                        categoryLabel(list[i]) = k.bars[j].name})
                  /\ \A j2 \in (j + 1)..Len(k.bars) :
                        /\ k.bars[j].value >= k.bars[j2].value
                        /\ Ahead(list, k.bars[j].name, k.bars[j2].name)
                  /\ \A n \in names \ barNames : Ahead(list, k.bars[j].name, n)

\* Seven categories among the filtered records: the one with two records
\* heads the histogram although it was met sixth, the categories with one
\* record follow in the order met ("F" before "E"), the last one met is cut.
C17_Witness ==
    /\ Len(categoryCount) = 7
    /\ categoryCount[1].name = "F" /\ categoryCount[2].name = "E"
    /\ categoryCount[5].name = Uncategorized
    /\ categoryCount[6].name = "B" /\ categoryCount[7].name = "A"
    /\ kpis.topCategory = "B"
    /\ Len(kpis.bars) = 6
    /\ kpis.bars[1] = [name |-> "B", value |-> 2]
    /\ kpis.bars[2] = [name |-> "F", value |-> 1]
    /\ kpis.bars[3] = [name |-> "E", value |-> 1]
    /\ \A j \in 1..6 : kpis.bars[j].name # "A"

\* C18: the three band shares of the donut are each between 0% and 100%,
\* their sum (the last colour stop) is exactly 100% whenever a record is
\* banded, and all three are 0% when none is.
C18_DonutShares ==
    \A d \in {donutStyleOf(kpis)} :
        /\ \A p \in {d.highPct, d.midPct, d.lowPct} :
              NumLeq(NumZero, p) /\ NumLeq(p, NumOf(100))
        /\ d.total > 0 => d.stops[3] = NumOf(100)
        /\ d.total = 0 =>
              d.highPct = NumZero /\ d.midPct = NumZero /\ d.lowPct = NumZero

-----------------------------------------------------------------------------
(* Source group properties                                                 *)

\* The record has no URL to take a host name from.
NoParsableUrl(t) == t.url = Null \/ URLHostname(t.url[1]) = Null

\* The host name of a record's URL without a leading "www.".
HostSansWww(t) ==
    LET host == URLHostname(t.url[1])[1]
    IN  IF startsWith(host, "www.") THEN SubSeq(host, 5, Len(host)) ELSE host

\* C19: in each bucket the records whose URL is absent, blank or unparsable
\* are all in one cluster, the unknown-source cluster; the records with a
\* parsable URL are clustered by host name without a leading "www."; every
\* record of the bucket is in exactly one cluster.
C19_SourceClusters ==
    \A groups \in {grouped} : \A b \in 1..Len(groups) :
    \A clusters \in {sortedSourcesOf(groups[b].label, groups[b].items)} :
        /\ \A i \in 1..Len(groups[b].items) :
              LET t == groups[b].items[i]
              IN  /\ Cardinality({c \in 1..Len(clusters) :
                                     t.id \in Ids(clusters[c].sourceItems)}) = 1
                  /\ \A c \in 1..Len(clusters) :
                        t.id \in Ids(clusters[c].sourceItems) =>
                            clusters[c].domain
                              = IF NoParsableUrl(t) THEN UnknownSource
                                ELSE HostSansWww(t)
        /\ \A c \in 1..Len(clusters) :
              Ids(clusters[c].sourceItems) \subseteq Ids(groups[b].items)

\* The state a source group is displayed in, before and after a step.
ShownOpen(c) == isOpen(c.groupKey, c.defaultOpen, sourceGroupOpen)
ShownOpenNext(c) == isOpen(c.groupKey, c.defaultOpen, sourceGroupOpen')

\* C20: a source group that was never toggled (sourceGroupOpen starts empty
\* and only a toggle of the group enters its key) is shown expanded iff it
\* has at most 3 members; a toggle of a group inverts the state the group
\* was displayed in and leaves the displayed state of every other group as
\* it was.
C20_ToggleInverts ==
    /\ [](\A groups \in {sourceGroups} : \A i \in 1..Len(groups) :
            groups[i].groupKey \notin DOMAIN sourceGroupOpen =>
                (ShownOpen(groups[i]) <=> Len(groups[i].sourceItems) <= 3))
    /\ [][\A groups \in {sourceGroups} :
            /\ DOMAIN sourceGroupOpen \subseteq DOMAIN sourceGroupOpen'
            /\ \A k \in DOMAIN sourceGroupOpen' \ DOMAIN sourceGroupOpen :
                  \E i \in 1..Len(groups) :
                      /\ groups[i].groupKey = k
                      /\ ToggleSourceGroup(k, groups[i].defaultOpen)
            /\ \A i \in 1..Len(groups) :
                  ToggleSourceGroup(groups[i].groupKey, groups[i].defaultOpen) =>
                      /\ ShownOpenNext(groups[i]) = ~ShownOpen(groups[i])
                      /\ \A j \in 1..Len(groups) :
                            j # i => ShownOpenNext(groups[j]) = ShownOpen(groups[j])
       ]_vars

\* Three source groups on the page: one of four members that is shown
\* expanded after a toggle, one toggled back to the state it has by default,
\* one never toggled.
C20_Witness ==
    \E groups \in {sourceGroups} :
        /\ \E i \in 1..Len(groups) :
              /\ Len(groups[i].sourceItems) = 4
              /\ groups[i].groupKey \in DOMAIN sourceGroupOpen
              /\ ShownOpen(groups[i])
        /\ \E i \in 1..Len(groups) :
              /\ groups[i].groupKey \in DOMAIN sourceGroupOpen
              /\ ShownOpen(groups[i]) = groups[i].defaultOpen
        /\ \E i \in 1..Len(groups) :
              /\ groups[i].groupKey \notin DOMAIN sourceGroupOpen
              /\ ShownOpen(groups[i])

-----------------------------------------------------------------------------
(* Export properties                                                       *)

\* The record is of the month chosen: its date parses and falls in it.
OfChosenMonth(t) ==
    /\ safeDate(t.published_date) # Null
    /\ monthKey(safeDate(t.published_date)[1], tzOffset) = exportMonth

\* The record is of the week chosen: it has that week number.
OfChosenWeek(t) ==
    /\ t.week_number # Null
    /\ AllDigits(exportWeek)
    /\ t.week_number[1] = DigitsToNat(exportWeek)

\* What the export scope selects.
InScope(t) ==
    CASE exportScope = "all"   -> TRUE
      [] exportScope = "month" -> exportMonth = "all" \/ OfChosenMonth(t)
      [] exportScope = "week"  -> exportWeek = "all" \/ OfChosenWeek(t)

\* C21: the export row set is the subsequence of the normalized list that
\* the export scope selects (everything, the records of the chosen month,
\* the records of the chosen week); a month or week chosen under another
\* scope has no effect, and neither has any setting of the display filters
\* (InScope reads none of them, and the states differ in all of them).
C21_ExportScopeOnly ==
    exportData = SelectSeq(normalizedTrends, InScope)

\* Scenario D with the score floor hiding one of the two week-5 records and
\* a month left over from the month scope.
C21_Witness ==
    /\ exportScope = "week" /\ exportWeek = "5" /\ exportMonth # "all"
    /\ minScore = 50
    /\ Len(normalizedTrends) = 4
    /\ [i \in 1..4 |-> normalizedTrends[i].week_number] = <<Some(4), Some(5), Some(5), Some(6)>>
    /\ [i \in 1..Len(exportData) |-> exportData[i].id] = <<2, 3>>
    /\ \E i \in 1..Len(exportData) : exportData[i] \notin Elems(filtered)

-----------------------------------------------------------------------------
(* Week number properties                                                  *)

\* ISO 8601: weeks run from Monday to Sunday, week 1 of a year is the week
\* with 4 January in it, and a day belongs to the week-numbering year whose
\* week 1 starts on or before it and whose successor's week 1 starts after it.
WeekdayOf(day) == ((day + 3) % 7) + 1

MondayOf(day) == day - (WeekdayOf(day) - 1)

WeekOneOf(year) == MondayOf(DaysFromCivil(year, 1, 4))

ISOWeekOfDay(day) ==
    LET y    == CivilFromDays(day).y
        year == CHOOSE v \in {y - 1, y, y + 1} :
                    WeekOneOf(v) <= day /\ day < WeekOneOf(v + 1)
    IN  (MondayOf(day) - WeekOneOf(year)) \div 7 + 1

\* The calendar day (days since the epoch) the Date shows in the viewer's zone.
LocalDayOf(date) == (date + tzOffset) \div HoursPerDay

\* C22: for every calendar date of the years covered, year boundaries and
\* 53-week years included, getISOWeek of a Date showing that calendar date
\* is the ISO 8601 week number of the date and lies in 1..53.
C22_ISOWeekNumber ==
    /\ currentWeek = ISOWeekOfDay(LocalDayOf(now))
    /\ currentWeek \in 1..53

\* 1 January 2027, a Friday in week 53 of 2026, seen after the first load.
C22_Witness ==
    /\ LocalCivil(now, tzOffset) = [y |-> 2027, m |-> 1, d |-> 1]
    /\ currentWeek = 53
    /\ ~loading

-----------------------------------------------------------------------------
(* Time zone properties                                                    *)

\* The week numbers the normalizer gives the loaded rows in the zone tz.
WeeksIn(tz) ==
    [i \in 1..Len(normalizedTrendsOf(trends, tz)) |->
        normalizedTrendsOf(trends, tz)[i].week_number]

\* C23: the week number derived for a record depends on its published_date
\* string only: the normalizer run on the same rows under any two viewer
\* time zone offsets gives the same week numbers.
C23_WeekIndependentOfZone ==
    \A tz \in TZOffsets : WeeksIn(tz) = WeeksIn(tzOffset)

-----------------------------------------------------------------------------
(* Malformed date properties                                               *)

\* A published_date that is not blank and does not parse.
UnparsableDate(t) ==
    /\ t.published_date # Null
    /\ Truthy(trim(t.published_date[1]))
    /\ safeDate(t.published_date) = Null

WithoutDate(t) == [t EXCEPT !.published_date = Null]

GroupModes == {"week", "day", "month"}

\* C24: a loaded row whose published_date does not parse fares in every
\* stage like the same row without a date: the normalizer keeps or drops
\* both alike and derives no week for either, and both get the same bucket
\* key in every grouping mode (the unknown one in day and month modes).
C24_UnparsableDateAsAbsent ==
    \A i \in 1..Len(trends) :
        UnparsableDate(trends[i]) =>
            LET t  == deriveWeek(trends[i], tzOffset)
                t0 == deriveWeek(WithoutDate(trends[i]), tzOffset)
            IN  /\ hasContent(t) = hasContent(t0)
                /\ t.week_number = trends[i].week_number
                /\ t0.week_number = trends[i].week_number
                /\ \A g \in GroupModes :
                       slotKeyForTrend(t, g, tzOffset) = slotKeyForTrend(t0, g, tzOffset)
                /\ \A g \in {"day", "month"} :
                       slotKeyForTrend(t, g, tzOffset) = g \o ":unknown"

-----------------------------------------------------------------------------
(* Load state properties                                                   *)

\* C25: once no load is in flight, an error message is shown only over the
\* empty snapshot a failed load wrote (or the empty initial one, when the
\* configuration is missing): no load that completed with data leaves the
\* message of another load standing next to its data.
C25_ErrorOnlyWithEmptySnapshot ==
    (mounted /\ InFlight = {} /\ error # Null) => trends = <<>>

\* C30: after the mount, refreshing is true while a background load is in
\* flight, loading is true while a foreground load is in flight, and both
\* are false when no load is in flight, whatever path the loads took.
C30_ProgressFlagsTrackLoads ==
    mounted =>
        /\ (\E i \in InFlight : loads[i].background) => refreshing
        /\ (\E i \in InFlight : ~loads[i].background) => loading
        /\ InFlight = {} => (~loading /\ ~refreshing)

-----------------------------------------------------------------------------
(* Bucket selection properties                                             *)

\* C26: once the effects have run, the selected bucket is "all" or one of
\* the keys of slotOptions, computed from the current snapshot under the
\* current grouping mode, after any grouping changes, selections and data
\* refreshes (a grouping change among them leaves "all" selected).
C26_SelectedSlotOffered ==
    ~slotResetPending => selectedSlot \in slotChoices

-----------------------------------------------------------------------------
(* Site protection properties                                              *)

AllConfigured ==
    Configured(authEnv.user) /\ Configured(authEnv.pass) /\ Configured(authEnv.token)

\* The last request was a GET of a path that is not public.
ProtectedRequest ==
    /\ lastRequest # Null
    /\ lastRequest[1].method = "GET"
    /\ ~isPublicPath(lastRequest[1].pathname)

\* C27: with user, pass and token configured, a request for a non-public
\* path goes through only with a site_auth cookie equal to the token and is
\* redirected to /login?next=<path> otherwise, and the cookie store gets a
\* site_auth cookie only from a login whose user and pass are the configured
\* ones.
C27_ProtectedOnlyWithToken ==
    /\ [](AllConfigured /\ ProtectedRequest =>
            IF lastRequest[1].cookie = authEnv.token
            THEN lastResponse[1] = [kind |-> "next"]
            ELSE lastResponse[1] = [kind |-> "redirect", pathname |-> "/login",
                                    next |-> lastRequest[1].pathname])
    /\ [][(AllConfigured /\ siteAuth' # siteAuth /\ siteAuth' # Null) =>
             /\ siteAuth' = authEnv.token
             /\ lastRequest'[1].method = "POST"
             /\ lastRequest'[1].pathname = "/api/auth/login"
             /\ lastRequest'[1].body[1].user = authEnv.user
             /\ lastRequest'[1].body[1].pass = authEnv.pass]_vars

\* A page reached with the cookie a login stored.
C27_Witness ==
    /\ AllConfigured /\ ProtectedRequest
    /\ lastRequest[1].pathname = "/export"
    /\ siteAuth = authEnv.token
    /\ lastRequest[1].cookie = siteAuth
    /\ lastResponse[1].kind = "next"

-----------------------------------------------------------------------------
(* Export run properties                                                   *)

\* C28: at most one export runs at a time and the exporting flag is true
\* exactly while one runs (so it is false after every export has ended,
\* saved or failed); a call of handleExcelExport while an export runs or
\* while the export row set is empty starts none, and one that starts an
\* export starts exactly one, over the rows selected at that moment.
C28_OneExportAtATime ==
    /\ [](Cardinality(Running) <= 1 /\ (exporting <=> Running # {}))
    /\ [][(exporting \/ Len(exportData) = 0) => Len(exports') = Len(exports)]_vars
    /\ [][Len(exports') # Len(exports) =>
             /\ exports' = Append(exports, [rows |-> exportData, phase |-> "importing"])
             /\ exporting']_vars

\* A second export running after the first one failed.
C28_Witness ==
    /\ Len(exports) = 2
    /\ exports[1].phase = "failed"
    /\ exports[2].phase = "writing"
    /\ exporting

-----------------------------------------------------------------------------
(* Category multi-select properties                                        *)

\* C29: the automatic selection of all categories is an initialization
\* only: when the user clears the selection with clearCategories while
\* categories are loaded, no automatic selection is due afterwards, so the
\* selection stays empty until the user toggles or selects again.
C29_ClearStaysCleared ==
    [][(ClearCategories /\ Len(allCategories) # 0) => ~selectionEffectDue']_vars

====
